---- MODULE Spec2Model ----
(***************************************************************************)
(* A model of unzippr's remote ZIP engine:                                 *)
(*   - the media streaming mode of the proxy GET handler (route.ts),       *)
(*   - the capability probing and strategy decision of parseZipFromUrl,    *)
(*   - fetchRange, parseRemoteZip and the on-demand extractors             *)
(*     (zip-remote), and the selection re-archiver (surgical-extract).     *)
(* Each subsystem has its own specification; the variables of the other    *)
(* subsystems stay at their idle value.                                    *)
(***************************************************************************)
EXTENDS Integers, Sequences, FiniteSets, TLC

VARIABLES
    mReq,       \* media gateway: the inbound request (start, end, Range header)
    mUpMode,    \* media gateway: how the upstream origin treats the request
    mResp,      \* media gateway: the response sent to the player ([status |-> 0]: none yet)
    pReq,       \* proxy: the inbound request (method, url and the other query parameters)
    pOrigin,    \* proxy: how the origin behind the url answers
    pResp,      \* proxy: the response sent (status 0: none yet)
    uPc,            \* parseZipFromUrl: the await the call is at ("off": not running)
    uSize,          \* parseZipFromUrl: the true length of the resource at the URL
    uProxied,       \* parseZipFromUrl: proxied (fetchBaseUrl is the /api/proxy URL)
    uContentLength, \* parseZipFromUrl: contentLength
    uSupportsRange, \* parseZipFromUrl: supportsRange
    uRangeErr,      \* parseZipFromUrl: message of rangeErr ("" while none was caught)
    uResult,        \* parseZipFromUrl: the ParseResult returned ([status |-> "pending"]: none yet)
    uLog,           \* parseZipFromUrl: the requests issued and the range evidence seen, in order
    uSilent,        \* parseZipFromUrl: the probing requests the server never answers
    rArchive,   \* zip-remote: the archive at the URL ("none": subsystem idle)
    rBytes,     \* zip-remote: the bytes of that archive, as the origin serves them
    rKnown,     \* parseRemoteZip: knownFileSize (0: not passed)
    rPc,        \* parseRemoteZip and the operations on its handle: the await the code is at
    rTail,      \* parseRemoteZip: tailData
    rFileSize,  \* parseRemoteZip: fileSize; handle.fileSize once a handle is returned
    rDir,       \* parseRemoteZip: totalEntries, cdSize, cdOffset, eocd64AbsOffset
    rEntries,   \* handle.entries
    rError,     \* parseRemoteZip: message of the error thrown ("" while none)
    rFetch,     \* fetchRange: the latest call (status 0: none yet)
    xCall,      \* the extraction in progress: operation, entry, dataStart, caller
    sLoop,      \* createZipFromRemoteSelection in progress: selectedPaths, index, zippable
    lastOp,     \* the latest completed operation on the handle and what it returned
    hSel,       \* handleExtractSelected: the call made (mode "off": none), its selection and source
    cHandle,    \* concurrent operations: the RemoteZipHandle they share
    cOps,       \* concurrent operations: the calls, each with its locals and its result
    cOverlapped \* concurrent operations: two calls have awaited a response at the same time

mediaVars == <<mReq, mUpMode, mResp>>
proxyVars == <<pReq, pOrigin, pResp>>
urlVars == <<uPc, uSize, uProxied, uContentLength, uSupportsRange, uRangeErr, uResult, uLog,
             uSilent>>
remoteVars == <<rArchive, rBytes, rKnown, rPc, rTail, rFileSize, rDir, rEntries, rError, rFetch,
                xCall, sLoop, lastOp, hSel>>
concVars == <<cHandle, cOps, cOverlapped>>
vars == <<mediaVars, proxyVars, urlVars, remoteVars, concVars>>

Min(a, b) == IF a <= b THEN a ELSE b
Max(a, b) == IF a >= b THEN a ELSE b

(***************************************************************************)
(* Bounds of the model.                                                    *)
(***************************************************************************)
\* length of the upstream resource the media gateway reads from
UpSize == 5
\* longest inbound Range header, in lexical units
MaxHdr == 4

(***************************************************************************)
(* MEDIA GATEWAY (route.ts, GET, media streaming mode)                     *)
(***************************************************************************)

\* The i-th byte (0-based) of the upstream resource.
UpstreamByte(i) == (i * 37 + 11) % 256

\* upstream[s .. e], both inclusive, as a byte sequence (empty when e < s).
UpstreamSlice(s, e) == [k \in 1..(e - s + 1) |-> UpstreamByte(s + k - 1)]

\* Lexical units of a Range header value: the literal "bytes=", the dash,
\* two decimal digits, and a character that is none of these.
DigitTokens == {"0", "3"}
Tokens == {"bytes=", "-", "x"} \cup DigitTokens

\* Every non-empty header value up to MaxHdr units; <<>> is the absent (or
\* empty) header, which `if (rangeHeader)` treats as false.
Headers == UNION {[1..n -> Tokens] : n \in 1..MaxHdr}

DigitVal(t) == IF t = "0" THEN 0 ELSE 3

\* parseInt(s, 10) of a non-empty string of decimal digits.
RECURSIVE ParseInt(_)
ParseInt(ds) ==
    IF Len(ds) = 0 THEN 0
    ELSE ParseInt(SubSeq(ds, 1, Len(ds) - 1)) * 10 + DigitVal(ds[Len(ds)])

\* \d* from position i: the index just past the longest run of digits.
RECURSIVE DigitRunEnd(_, _)
DigitRunEnd(h, i) ==
    IF i <= Len(h) /\ h[i] \in DigitTokens THEN DigitRunEnd(h, i + 1) ELSE i

\* /bytes=(\d*)-(\d*)/ anchored at position i.
MatchAt(h, i) ==
    /\ h[i] = "bytes="
    /\ LET j == DigitRunEnd(h, i + 1) IN j <= Len(h) /\ h[j] = "-"

\* rangeHeader.match(/bytes=(\d*)-(\d*)/): the leftmost match and its groups.
RangeMatch(h) ==
    IF \E i \in 1..Len(h) : MatchAt(h, i)
    THEN LET i == CHOOSE x \in 1..Len(h) :
                     MatchAt(h, x) /\ \A y \in 1..(x - 1) : ~MatchAt(h, y)
             j == DigitRunEnd(h, i + 1)
             k == DigitRunEnd(h, j + 1)
         IN  [ok |-> TRUE, g1 |-> SubSeq(h, i + 1, j - 1), g2 |-> SubSeq(h, j + 1, k - 1)]
    ELSE [ok |-> FALSE, g1 |-> <<>>, g2 |-> <<>>]

\* A bug the clamp guards against: the relative end used as it came.
ClampEndMissing(reqEnd, virtualFileSize) == reqEnd

\* reqEnd = Math.min(reqEnd, virtualFileSize - 1)
ClampEnd(reqEnd, virtualFileSize) == Min(reqEnd, virtualFileSize - 1)

\* The origin's answer to GET with "Range: bytes=absStart-absEnd".
\*   "ranges":   honours byte ranges (206); a spec with last < first is invalid
\*               and ignored (200, whole body); first >= length gives 416
\*   "noranges": ignores the Range header (200, whole body)
\*   "error":    answers 404
\*   "throw":    the fetch rejects (network error)
UpModes == {"ranges", "noranges", "error", "throw"}

UpstreamFetch(mode, absStart, absEnd) ==
    IF mode = "throw" THEN [status |-> -1, body |-> <<>>]
    ELSE IF mode = "error" THEN [status |-> 404, body |-> <<>>]
    ELSE IF mode = "noranges" \/ absStart > absEnd
    THEN [status |-> 200, body |-> UpstreamSlice(0, UpSize - 1)]
    ELSE IF absStart >= UpSize THEN [status |-> 416, body |-> <<>>]
    ELSE [status |-> 206, body |-> UpstreamSlice(absStart, Min(absEnd, UpSize - 1))]

\* The JSON error responses of the handler.
JsonError(st, upRange, upStatus) ==
    [status |-> st, contentRange |-> <<>>, contentLength |-> -1, body |-> <<>>,
     upRange |-> upRange, upStatus |-> upStatus]

\* The media branch of GET: parse the player's Range header relative to the
\* virtual file, translate it to an absolute upstream range, relay the body.
MediaRespond(req, mode) ==
    LET dataStart == req.dataStart
        dataEnd == req.dataEnd
        virtualFileSize == dataEnd - dataStart + 1
        rangeHeader == req.range
        m == IF rangeHeader # <<>> THEN RangeMatch(rangeHeader)
             ELSE [ok |-> FALSE, g1 |-> <<>>, g2 |-> <<>>]
        reqStart == IF m.ok /\ m.g1 # <<>> THEN ParseInt(m.g1) ELSE 0
        reqEndRaw == IF m.ok /\ m.g2 # <<>> THEN ParseInt(m.g2) ELSE virtualFileSize - 1
        reqEnd == IF m.ok THEN ClampEnd(reqEndRaw, virtualFileSize) ELSE reqEndRaw
        absStart == dataStart + reqStart
        absEnd == dataStart + reqEnd
        response == UpstreamFetch(mode, absStart, absEnd)
        chunkSize == reqEnd - reqStart + 1
    IN  IF response.status = -1
        THEN JsonError(502, <<absStart, absEnd>>, response.status)
        ELSE IF ~(response.status \in 200..299)
        THEN JsonError(502, <<absStart, absEnd>>, response.status)
        ELSE IF rangeHeader # <<>>
        THEN [status |-> 206,
              contentRange |-> <<reqStart, reqEnd, virtualFileSize>>,
              contentLength |-> chunkSize,
              body |-> response.body,
              upRange |-> <<absStart, absEnd>>, upStatus |-> response.status]
        ELSE [status |-> 200,
              contentRange |-> <<>>,
              contentLength |-> virtualFileSize,
              body |-> response.body,
              upRange |-> <<absStart, absEnd>>, upStatus |-> response.status]

\* The requests a player can send for an entry whose data lies inside the
\* upstream resource (getStreamingMediaUrl gives end = start - 1 for a
\* zero-length entry).
MediaRequests ==
    {[dataStart |-> s, dataEnd |-> e, range |-> h] :
        s \in 0..(UpSize - 1), e \in -1..(UpSize - 1), h \in Headers \cup {<<>>}}

MediaIdle ==
    /\ mReq = [dataStart |-> 0, dataEnd |-> 0, range |-> <<>>]
    /\ mUpMode = "off"
    /\ mResp = [status |-> 0]

MediaInit ==
    /\ mReq \in {r \in MediaRequests : r.dataEnd >= r.dataStart - 1}
    /\ mUpMode \in UpModes
    /\ mResp = [status |-> 0]

\* GET /api/proxy?url=..&start=..&end=..&media=1
MediaGET ==
    /\ mResp.status = 0
    /\ mResp' = MediaRespond(mReq, mUpMode)
    /\ mUpMode # "off"
    /\ UNCHANGED <<mReq, mUpMode>>
    /\ UNCHANGED <<proxyVars, urlVars, remoteVars, concVars>>

MediaNext == MediaGET

(***************************************************************************)
(* parseZipFromUrl (zip-handler): capability probing, strategy decision,   *)
(* range-based parsing with fall-back to the full download.                *)
(***************************************************************************)

\* const RANGE_PARSE_THRESHOLD = 20 * 1024 * 1024
RANGE_PARSE_THRESHOLD == 20971520
\* FILE_SIZE_LIMITS.URL = 500 * 1024 * 1024
FILE_SIZE_LIMITS_URL == 524288000
\* a resource well below the threshold
SmallSize == 1000

\* The lengths of the resources tried: below, at and just above the
\* range-parse threshold, at and just above the documented URL limit.
UrlSizes ==
    {SmallSize, RANGE_PARSE_THRESHOLD, RANGE_PARSE_THRESHOLD + 1,
     FILE_SIZE_LIMITS_URL, FILE_SIZE_LIMITS_URL + 1}

\* A Content-Length (or Content-Range total) as a server may report it:
\* the true length, or 0 when the header is missing.
ReportedSizes(size) == {0, size}

UrlPending == [status |-> "pending"]

\* The requests of the capability probing, by the await that issues them.
ProbeSteps == {"directHead", "proxyHead", "fallbackProbe", "probe"}

\* The timer (ms) that aborts the request of a step: setTimeout(() =>
\* controller.abort(), ms) with the controller's signal passed to fetch.
\* The direct HEAD and the step-2 probe are fetched without a signal.
Deadline(step) ==
    IF step = "proxyHead" THEN 15000
    ELSE IF step = "fallbackProbe" THEN 10000
    ELSE -1

\* The request of the step gets an answer (a response or a network error).
Answered(step) == step \notin uSilent
\* The request of the step gets none and its timer aborts it: fetch rejects.
TimedOut(step) == step \in uSilent /\ Deadline(step) > 0

UrlIdle ==
    /\ uPc = "off"
    /\ uSilent = {}
    /\ uSize = 0
    /\ uProxied = FALSE
    /\ uContentLength = 0
    /\ uSupportsRange = FALSE
    /\ uRangeErr = ""
    /\ uResult = UrlPending
    /\ uLog = <<>>

UrlInit ==
    /\ uPc = "directHead"
    /\ uSilent \in SUBSET ProbeSteps
    /\ uSize \in UrlSizes
    /\ uProxied = FALSE
    /\ uContentLength = 0
    /\ uSupportsRange = FALSE
    /\ uRangeErr = ""
    /\ uResult = UrlPending
    /\ uLog = <<>>

\* A bug the threshold guards against: range mode for every ranged source.
UseLazyParsingNoThreshold(supportsRange, contentLength) == supportsRange

\* const useLazyParsing = supportsRange && contentLength > RANGE_PARSE_THRESHOLD
UseLazyParsing(supportsRange, contentLength) ==
    supportsRange /\ contentLength > RANGE_PARSE_THRESHOLD

\* if (!supportsRange && contentLength > RANGE_PARSE_THRESHOLD): the extra probe
NeedsProbe(supportsRange, contentLength) ==
    ~supportsRange /\ contentLength > RANGE_PARSE_THRESHOLD

\* Where the call goes once the probing is over.
Strategy(supportsRange, contentLength) ==
    IF UseLazyParsing(supportsRange, contentLength) THEN "rangeParse" ELSE "download"

\* Where the call goes after the HEAD stage (step 1).
AfterHead(supportsRange, contentLength) ==
    IF NeedsProbe(supportsRange, contentLength) THEN "probe"
    ELSE Strategy(supportsRange, contentLength)

Evidence(b) == IF b THEN <<"range evidence">> ELSE <<>>

\* Step 1, direct HEAD answered OK: read Content-Length and Accept-Ranges.
DirectHeadOk ==
    /\ uPc = "directHead"
    /\ Answered("directHead")
    /\ \E cl \in ReportedSizes(uSize), acceptsBytes \in BOOLEAN :
        LET sr == acceptsBytes /\ cl > 0 IN
        /\ uContentLength' = cl
        /\ uSupportsRange' = sr
        /\ uLog' = uLog \o <<"HEAD direct">> \o Evidence(sr)
        /\ uPc' = AfterHead(sr, cl)
    /\ UNCHANGED <<uSize, uProxied, uRangeErr, uResult>>
    /\ UNCHANGED uSilent
    /\ UNCHANGED <<mediaVars, proxyVars, remoteVars, concVars>>

\* Step 1, direct HEAD threw or was not OK: switch to the proxy.
DirectHeadFailed ==
    /\ uPc = "directHead"
    /\ Answered("directHead")
    /\ uProxied' = TRUE
    /\ uLog' = uLog \o <<"HEAD direct">>
    /\ uPc' = "proxyHead"
    /\ UNCHANGED <<uSize, uContentLength, uSupportsRange, uRangeErr, uResult>>
    /\ UNCHANGED uSilent
    /\ UNCHANGED <<mediaVars, proxyVars, remoteVars, concVars>>

\* Proxy HEAD answered OK: Content-Length or X-File-Size, Accept-Ranges or
\* X-Range-Support.
ProxyHeadOk ==
    /\ uPc = "proxyHead"
    /\ Answered("proxyHead")
    /\ \E cl \in ReportedSizes(uSize), acceptsBytes \in BOOLEAN, xRangeSupport \in BOOLEAN :
        LET sr == (acceptsBytes \/ xRangeSupport) /\ cl > 0 IN
        /\ uContentLength' = cl
        /\ uSupportsRange' = sr
        /\ uLog' = uLog \o <<"HEAD proxy">> \o Evidence(sr)
        /\ uPc' = AfterHead(sr, cl)
    /\ UNCHANGED <<uSize, uProxied, uRangeErr, uResult>>
    /\ UNCHANGED uSilent
    /\ UNCHANGED <<mediaVars, proxyVars, remoteVars, concVars>>

\* Proxy HEAD answered with a non-OK status: nothing is learnt.
ProxyHeadNotOk ==
    /\ uPc = "proxyHead"
    /\ Answered("proxyHead")
    /\ uLog' = uLog \o <<"HEAD proxy">>
    /\ uPc' = AfterHead(uSupportsRange, uContentLength)
    /\ UNCHANGED <<uSize, uProxied, uContentLength, uSupportsRange, uRangeErr, uResult>>
    /\ UNCHANGED uSilent
    /\ UNCHANGED <<mediaVars, proxyVars, remoteVars, concVars>>

\* Proxy HEAD threw or timed out: go on to the ranged GET probe.
ProxyHeadThrew ==
    /\ uPc = "proxyHead"
    /\ Answered("proxyHead") \/ TimedOut("proxyHead")
    /\ uLog' = uLog \o <<"HEAD proxy">>
    /\ uPc' = "fallbackProbe"
    /\ UNCHANGED <<uSize, uProxied, uContentLength, uSupportsRange, uRangeErr, uResult>>
    /\ UNCHANGED uSilent
    /\ UNCHANGED <<mediaVars, proxyVars, remoteVars, concVars>>

\* The fallback probe (GET, Range: bytes=0-0) answered 206: ranges are
\* proven, and the Content-Range total (when present) is the length.
FallbackProbe206 ==
    /\ uPc = "fallbackProbe"
    /\ Answered("fallbackProbe")
    /\ \E total \in ReportedSizes(uSize) :
        /\ uSupportsRange' = TRUE
        /\ uContentLength' = IF total > 0 THEN total ELSE uContentLength
        /\ uLog' = uLog \o <<"GET bytes=0-0", "range evidence">>
        /\ uPc' = AfterHead(TRUE, IF total > 0 THEN total ELSE uContentLength)
    /\ UNCHANGED <<uSize, uProxied, uRangeErr, uResult>>
    /\ UNCHANGED uSilent
    /\ UNCHANGED <<mediaVars, proxyVars, remoteVars, concVars>>

\* The fallback probe answered another status, threw or timed out.
FallbackProbeOther ==
    /\ uPc = "fallbackProbe"
    /\ Answered("fallbackProbe") \/ TimedOut("fallbackProbe")
    /\ uLog' = uLog \o <<"GET bytes=0-0">>
    /\ uPc' = AfterHead(uSupportsRange, uContentLength)
    /\ UNCHANGED <<uSize, uProxied, uContentLength, uSupportsRange, uRangeErr, uResult>>
    /\ UNCHANGED uSilent
    /\ UNCHANGED <<mediaVars, proxyVars, remoteVars, concVars>>

\* Step 2, the probe for a large file without advertised ranges, answered 206.
Probe206 ==
    /\ uPc = "probe"
    /\ Answered("probe")
    /\ uSupportsRange' = TRUE
    /\ uLog' = uLog \o <<"GET bytes=0-0", "range evidence">>
    /\ uPc' = Strategy(TRUE, uContentLength)
    /\ UNCHANGED <<uSize, uProxied, uContentLength, uRangeErr, uResult>>
    /\ UNCHANGED uSilent
    /\ UNCHANGED <<mediaVars, proxyVars, remoteVars, concVars>>

\* Step 2, the probe answered another status or threw.
ProbeOther ==
    /\ uPc = "probe"
    /\ Answered("probe")
    /\ uLog' = uLog \o <<"GET bytes=0-0">>
    /\ uPc' = Strategy(uSupportsRange, uContentLength)
    /\ UNCHANGED <<uSize, uProxied, uContentLength, uSupportsRange, uRangeErr, uResult>>
    /\ UNCHANGED uSilent
    /\ UNCHANGED <<mediaVars, proxyVars, remoteVars, concVars>>

\* parseRemoteZip returned a handle: the range-mode result.
RangeParseOk ==
    /\ uPc = "rangeParse"
    /\ uLog' = uLog \o <<"parseRemoteZip">>
    /\ uResult' = [status |-> "loaded", unzipped |-> FALSE, remoteHandle |-> TRUE,
                   supportsRangeRequests |-> TRUE, error |-> ""]
    /\ uPc' = "done"
    /\ UNCHANGED <<uSize, uProxied, uContentLength, uSupportsRange, uRangeErr>>
    /\ UNCHANGED uSilent
    /\ UNCHANGED <<mediaVars, proxyVars, remoteVars, concVars>>

\* parseRemoteZip threw (RANGE_NOT_SUPPORTED or anything else): the catch
\* reports progress and falls through to the full download.
RangeParseThrew ==
    /\ uPc = "rangeParse"
    /\ \E msg \in {"RANGE_NOT_SUPPORTED", "Not a valid ZIP file"} : uRangeErr' = msg
    /\ uLog' = uLog \o <<"parseRemoteZip">>
    /\ uPc' = "download"
    /\ UNCHANGED <<uSize, uProxied, uContentLength, uSupportsRange, uResult>>
    /\ UNCHANGED uSilent
    /\ UNCHANGED <<mediaVars, proxyVars, remoteVars, concVars>>

\* fetchAndParseZip succeeded: state "loaded", unzipped set. A handle for the
\* share links is then sought when ranges are supported.
DownloadOk ==
    /\ uPc = "download"
    /\ uLog' = uLog \o <<"GET full">>
    /\ uResult' = [status |-> "loaded", unzipped |-> TRUE, remoteHandle |-> FALSE,
                   supportsRangeRequests |-> FALSE, error |-> ""]
    /\ uPc' = IF uSupportsRange /\ uContentLength > 0 THEN "shareHandle" ELSE "done"
    /\ UNCHANGED <<uSize, uProxied, uContentLength, uSupportsRange, uRangeErr>>
    /\ UNCHANGED uSilent
    /\ UNCHANGED <<mediaVars, proxyVars, remoteVars, concVars>>

\* fetchAndParseZip threw: the error state.
DownloadThrew ==
    /\ uPc = "download"
    /\ uLog' = uLog \o <<"GET full">>
    /\ uResult' = [status |-> "error", unzipped |-> FALSE, remoteHandle |-> FALSE,
                   supportsRangeRequests |-> uSupportsRange,
                   error |-> "Failed to download and parse ZIP"]
    /\ uPc' = "done"
    /\ UNCHANGED <<uSize, uProxied, uContentLength, uSupportsRange, uRangeErr>>
    /\ UNCHANGED uSilent
    /\ UNCHANGED <<mediaVars, proxyVars, remoteVars, concVars>>

\* The second parseRemoteZip, after a full download: its handle is added to
\* the result, its failure is swallowed.
ShareHandle ==
    /\ uPc = "shareHandle"
    /\ \E ok \in BOOLEAN : uResult' = [uResult EXCEPT !.remoteHandle = ok]
    /\ uLog' = uLog \o <<"parseRemoteZip">>
    /\ uPc' = "done"
    /\ UNCHANGED <<uSize, uProxied, uContentLength, uSupportsRange, uRangeErr>>
    /\ UNCHANGED uSilent
    /\ UNCHANGED <<mediaVars, proxyVars, remoteVars, concVars>>

UrlNext ==
    \/ DirectHeadOk \/ DirectHeadFailed
    \/ ProxyHeadOk \/ ProxyHeadNotOk \/ ProxyHeadThrew
    \/ FallbackProbe206 \/ FallbackProbeOther
    \/ Probe206 \/ ProbeOther
    \/ RangeParseOk \/ RangeParseThrew
    \/ DownloadOk \/ DownloadThrew
    \/ ShareHandle

(***************************************************************************)
(* ZIP ARCHIVES served by the remote origin, byte by byte.                 *)
(***************************************************************************)

\* most members an archive of the model holds
MaxMembers == 2

\* Little-endian encodings.
U16(n) == <<n % 256, (n \div 256) % 256>>
U32(n) == <<n % 256, (n \div 256) % 256, (n \div 65536) % 256, (n \div 16777216) % 256>>
U64(n) == U32(n) \o <<0, 0, 0, 0>>

RECURSIVE Zeros(_)
Zeros(n) == IF n <= 0 THEN <<>> ELSE <<0>> \o Zeros(n - 1)

\* ZIP format constants (zip-remote).
EOCD_SIGNATURE == 101010256
EOCD64_SIGNATURE == 101075792
EOCD64_LOCATOR_SIGNATURE == 117853008
CD_SIGNATURE == 33639248
LFH_SIGNATURE == 67324752
COMPRESSION_STORED == 0
COMPRESSION_DEFLATE == 8

\* A raw DEFLATE stream holding `content` as one final stored block:
\* BFINAL=1/BTYPE=00, LEN, NLEN, the literal bytes.
DeflateStored(content) ==
    <<1>> \o U16(Len(content)) \o U16(65535 - Len(content)) \o content

\* The members archives are made of. path: the file name bytes (ASCII);
\* data: the bytes stored in the archive; csize, usize: the sizes recorded in
\* the headers; lfhExtra: length of the extra field of the Local File Header
\* (the Central Directory record has none); time, date: the DOS pair.
MemberStored ==
    [path |-> <<97>>, method |-> 0, data |-> <<104, 105>>, csize |-> 2, usize |-> 2,
     lfhExtra |-> 0, time |-> 33153, date |-> 22881]
MemberDeflate ==
    [path |-> <<100, 47, 98>>, method |-> 8, data |-> DeflateStored(<<104, 105, 33>>),
     csize |-> 8, usize |-> 3, lfhExtra |-> 2, time |-> 1, date |-> 33]
MemberDir ==
    [path |-> <<100, 47>>, method |-> 0, data |-> <<>>, csize |-> 0, usize |-> 0,
     lfhExtra |-> 0, time |-> 0, date |-> 33]
MemberEmpty ==
    [path |-> <<101>>, method |-> 0, data |-> <<>>, csize |-> 0, usize |-> 0,
     lfhExtra |-> 0, time |-> 0, date |-> 33]
\* a malformed STORED member: 3 bytes stored, 5 recorded as uncompressed size
MemberBadSize ==
    [path |-> <<115>>, method |-> 0, data |-> <<1, 2, 3>>, csize |-> 3, usize |-> 5,
     lfhExtra |-> 0, time |-> 0, date |-> 33]
\* a member compressed with a method the engine does not support (bzip2)
MemberBzip ==
    [path |-> <<117>>, method |-> 12, data |-> <<66, 90>>, csize |-> 2, usize |-> 9,
     lfhExtra |-> 0, time |-> 0, date |-> 33]

\* a member recorded with an uncompressed size one byte above the preview
\* limit of 25 MiB (FILE_SIZE_LIMITS.PREVIEW); its data is not that long
MemberHuge ==
    [path |-> <<103>>, method |-> 0, data |-> <<1, 2>>, csize |-> 2,
     usize |-> 25 * 1024 * 1024 + 1, lfhExtra |-> 0, time |-> 0, date |-> 33]

MemberMenu ==
    {MemberStored, MemberDeflate, MemberDir, MemberEmpty, MemberBadSize, MemberBzip,
     MemberHuge}

\* What may be wrong (or special) about an archive:
\*   "none"     a well-formed archive
\*   "zip64"    a ZIP64 EOCD record and locator precede the EOCD
\*   "badsig"   the last Central Directory record has a wrong signature
\*   "short"    the EOCD declares one entry more than the directory holds
\*   "badlfh"   the first member's Local File Header has a wrong signature
Flaws == {"none", "zip64", "badsig", "short", "badlfh"}

\* Further archives, read by parseRemoteZip only:
\*   "cutcd"    the EOCD records a directory size one byte short: the region
\*              ends inside the name of the last record
\*   "x64..."   every Central Directory record carries 0xFFFFFFFF in the
\*              fields named (u: uncompressed size, c: compressed size,
\*              o: local-header offset) and their values in a ZIP64 extended
\*              information block; "x64pre": all three, after another block
Zip64Flaws == {"x64u", "x64c", "x64o", "x64uc", "x64uo", "x64co", "x64uco", "x64pre"}
\*   "zip64far" as "zip64", with an extensible data sector after the ZIP64
\*              EOCD record long enough to put the record (and the
\*              directory) before the last 65557 bytes of the archive
\*   "zip64bad" as "zip64", the ZIP64 EOCD record with a wrong signature
Zip64EocdFlaws == {"zip64", "zip64far", "zip64bad"}
\*   "onebyte"  a resource of one byte
\*   "cuteocd"  the last byte of the EOCD is missing: its signature leaves
\*              21 bytes (the whole resource is 21 bytes without members)
\*   "nosig"    the EOCD has a wrong signature
\*   "twosig"   the EOCD carries a comment of 22 bytes that reads as the EOCD
\*              of an empty archive
EocdFlaws == {"onebyte", "cuteocd", "nosig", "twosig"}
ParseFlaws == Flaws \cup {"cutcd"} \cup Zip64Flaws \cup Zip64EocdFlaws \cup EocdFlaws

\* length of the extensible data sector of "zip64far"
FarSector == 65500

\* The fields a flaw replaces by the sentinel.
SentinelFields(flaw) ==
    (IF flaw \in {"x64u", "x64uc", "x64uo", "x64uco", "x64pre"} THEN {"u"} ELSE {})
    \cup (IF flaw \in {"x64c", "x64uc", "x64co", "x64uco", "x64pre"} THEN {"c"} ELSE {})
    \cup (IF flaw \in {"x64o", "x64uo", "x64co", "x64uco", "x64pre"} THEN {"o"} ELSE {})

NoDup(ms) == \A i, j \in 1..Len(ms) : i # j => ms[i] # ms[j]

Archives ==
    {[members |-> ms, flaw |-> f] :
        ms \in {x \in UNION {[1..n -> MemberMenu] : n \in 0..MaxMembers} : NoDup(x)},
        f \in Flaws}

\* Local File Header (30 bytes + name + extra) followed by the data.
LocalBytes(m, sigOk) ==
    U32(IF sigOk THEN LFH_SIGNATURE ELSE LFH_SIGNATURE + 1)
    \o U16(20) \o U16(0) \o U16(m.method) \o U16(m.time) \o U16(m.date)
    \o U32(0) \o U32(m.csize) \o U32(m.usize)
    \o U16(Len(m.path)) \o U16(m.lfhExtra)
    \o m.path \o Zeros(m.lfhExtra) \o m.data

\* Central Directory file header (46 bytes + name).
CentralBytes(m, sigOk, localHeaderOffset) ==
    U32(IF sigOk THEN CD_SIGNATURE ELSE CD_SIGNATURE + 1)
    \o U16(20) \o U16(20) \o U16(0) \o U16(m.method) \o U16(m.time) \o U16(m.date)
    \o U32(0) \o U32(m.csize) \o U32(m.usize)
    \o U16(Len(m.path)) \o U16(0) \o U16(0) \o U16(0) \o U16(0) \o U32(0)
    \o U32(localHeaderOffset)
    \o m.path

\* 0xFFFFFFFF in a 32-bit field.
Sentinel32 == <<255, 255, 255, 255>>

\* The ZIP64 extended information block (id 0x0001) of a record: the 64-bit
\* values of the fields in `fields`, in the order of the format; after an
\* extended-timestamp block (id 0x5455) when `pre`.
Zip64Block(m, localHeaderOffset, fields, pre) ==
    LET values == (IF "u" \in fields THEN U64(m.usize) ELSE <<>>)
                  \o (IF "c" \in fields THEN U64(m.csize) ELSE <<>>)
                  \o (IF "o" \in fields THEN U64(localHeaderOffset) ELSE <<>>)
    IN  (IF pre THEN U16(21589) \o U16(1) \o <<0>> ELSE <<>>)
        \o U16(1) \o U16(Len(values)) \o values

\* Central Directory file header of a ZIP64 record (46 bytes + name + extra).
CentralBytesZip64(m, localHeaderOffset, fields, pre) ==
    LET extra == Zip64Block(m, localHeaderOffset, fields, pre)
    IN  U32(CD_SIGNATURE)
        \o U16(45) \o U16(45) \o U16(0) \o U16(m.method) \o U16(m.time) \o U16(m.date)
        \o U32(0)
        \o (IF "c" \in fields THEN Sentinel32 ELSE U32(m.csize))
        \o (IF "u" \in fields THEN Sentinel32 ELSE U32(m.usize))
        \o U16(Len(m.path)) \o U16(Len(extra)) \o U16(0) \o U16(0) \o U16(0) \o U32(0)
        \o (IF "o" \in fields THEN Sentinel32 ELSE U32(localHeaderOffset))
        \o m.path \o extra

\* The local part of the archive: one header + data per member.
RECURSIVE LocalPart(_, _, _)
LocalPart(a, i, acc) ==
    IF i > Len(a.members) THEN acc
    ELSE LocalPart(a, i + 1,
                   acc \o LocalBytes(a.members[i], ~(a.flaw = "badlfh" /\ i = 1)))

\* Absolute offset of the i-th member's Local File Header.
RECURSIVE LocalOffset(_, _)
LocalOffset(a, i) ==
    IF i <= 1 THEN 0
    ELSE LocalOffset(a, i - 1) + Len(LocalBytes(a.members[i - 1], TRUE))

RECURSIVE CentralPart(_, _, _)
CentralPart(a, i, acc) ==
    IF i > Len(a.members) THEN acc
    ELSE CentralPart(a, i + 1,
                     acc \o (IF a.flaw \in Zip64Flaws
                             THEN CentralBytesZip64(a.members[i], LocalOffset(a, i),
                                                    SentinelFields(a.flaw),
                                                    a.flaw = "x64pre")
                             ELSE CentralBytes(a.members[i],
                                               ~(a.flaw = "badsig" /\ i = Len(a.members)),
                                               LocalOffset(a, i))))

\* The total entry count the end records declare.
DeclaredEntries(a) == Len(a.members) + (IF a.flaw = "short" THEN 1 ELSE 0)

\* ZIP64 EOCD record (56 bytes) and locator (20 bytes).
Eocd64Bytes(a, cdOffset, cdSize) ==
    U32(EOCD64_SIGNATURE) \o U64(44) \o U16(45) \o U16(45) \o U32(0) \o U32(0)
    \o U64(DeclaredEntries(a)) \o U64(DeclaredEntries(a)) \o U64(cdSize) \o U64(cdOffset)
    \o U32(EOCD64_LOCATOR_SIGNATURE) \o U32(0) \o U64(cdOffset + cdSize) \o U32(1)

\* The same with `sector` bytes of extensible data between record and
\* locator, and the record's signature right or not.
Eocd64BytesWith(a, cdOffset, cdSize, sector, sigOk) ==
    U32(IF sigOk THEN EOCD64_SIGNATURE ELSE EOCD64_SIGNATURE + 1)
    \o U64(44 + sector) \o U16(45) \o U16(45) \o U32(0) \o U32(0)
    \o U64(DeclaredEntries(a)) \o U64(DeclaredEntries(a)) \o U64(cdSize) \o U64(cdOffset)
    \o [i \in 1..sector |-> 0]
    \o U32(EOCD64_LOCATOR_SIGNATURE) \o U32(0) \o U64(cdOffset + cdSize) \o U32(1)

\* End of Central Directory record (22 bytes, no comment).
EocdBytes(a, cdOffset, cdSize) ==
    U32(EOCD_SIGNATURE) \o U16(0) \o U16(0)
    \o U16(DeclaredEntries(a)) \o U16(DeclaredEntries(a))
    \o U32(cdSize) \o U32(cdOffset) \o U16(0)

\* End of Central Directory record of an empty archive.
EmptyEocd ==
    U32(EOCD_SIGNATURE) \o U16(0) \o U16(0) \o U16(0) \o U16(0)
    \o U32(0) \o U32(0) \o U16(0)

\* The end record of the archives with a flaw in it.
EocdBytesWith(a, cdOffset, cdSize) ==
    LET eocd == EocdBytes(a, cdOffset, cdSize)
    IN  IF a.flaw = "cuteocd" THEN SubSeq(eocd, 1, 21)
        ELSE IF a.flaw = "nosig" THEN U32(EOCD_SIGNATURE + 1) \o SubSeq(eocd, 5, 22)
        ELSE IF a.flaw = "twosig" THEN SubSeq(eocd, 1, 20) \o U16(22) \o EmptyEocd
        ELSE eocd

\* The whole archive.
ArchiveBytes(a) ==
    LET local == LocalPart(a, 1, <<>>)
        central == CentralPart(a, 1, <<>>)
        cdSize == IF a.flaw = "cutcd" /\ Len(central) > 0 THEN Len(central) - 1
                  ELSE Len(central)
    IN  IF a.flaw = "onebyte" THEN <<80>> ELSE
        local \o central
        \o (IF a.flaw = "zip64" THEN Eocd64Bytes(a, Len(local), Len(central))
            ELSE IF a.flaw = "zip64far"
            THEN Eocd64BytesWith(a, Len(local), Len(central), FarSector, TRUE)
            ELSE IF a.flaw = "zip64bad"
            THEN Eocd64BytesWith(a, Len(local), Len(central), 0, FALSE)
            ELSE <<>>)
        \o EocdBytesWith(a, Len(local), cdSize)

\* The archives parseRemoteZip is run on (the long ones empty or with one
\* stored member).
ParseArchives ==
    {a \in [members : {x \in UNION {[1..n -> MemberMenu] : n \in 0..MaxMembers} : NoDup(x)},
             flaw : ParseFlaws] :
        a.flaw = "zip64far" => a.members \in {<<>>, <<MemberStored>>}}

(***************************************************************************)
(* ZIP-REMOTE: reading helpers.  `a` is the byte sequence of the origin's   *)
(* resource; a buffer is a view [base, len] of it: the bytes base ..       *)
(* base+len-1.                                                             *)
(***************************************************************************)

NoBuf == [base |-> 0, len |-> 0]

\* buf[off]; a read outside the buffer yields undefined, which the bitwise
\* operators of readU16/readU32 take as 0.
BufByte(a, buf, off) ==
    IF off >= 0 /\ off < buf.len THEN a[buf.base + off + 1] ELSE 0

\* buf.subarray(begin, end): both ends clamped to the buffer.
Subarray(buf, begin, end) ==
    LET b == Max(0, Min(begin, buf.len))
        e == Max(0, Min(end, buf.len))
    IN  [base |-> buf.base + b, len |-> Max(0, e - b)]

\* The bytes of a buffer as a sequence.
BufSeq(a, buf) == [i \in 1..buf.len |-> a[buf.base + i]]

readU16(a, buf, off) == BufByte(a, buf, off) + BufByte(a, buf, off + 1) * 256

\* An unsigned 32-bit number.  Values from 2^31 on are carried as their 32-bit
\* pattern (0xffffffff is -1): comparisons are exact for every value, and
\* arithmetic is exact below 2^31, where the sizes and offsets of the archives
\* above lie.
readU32(a, buf, off) ==
    LET b3 == BufByte(a, buf, off + 3)
    IN  BufByte(a, buf, off) + BufByte(a, buf, off + 1) * 256
        + BufByte(a, buf, off + 2) * 65536
        + (IF b3 < 128 THEN b3 ELSE b3 - 256) * 16777216

U32_MAX == -1

readU64(a, buf, off) ==
    LET lo == readU32(a, buf, off)
        hi == readU32(a, buf, off + 4)
    IN  hi * 65536 * 65536 + lo

\* The fields new Date(...) is built from (local time, before normalisation).
dosToDate(date, time) ==
    [year |-> ((date \div 512) % 128) + 1980,
     month |-> ((date \div 32) % 16) - 1,
     day |-> date % 32,
     hours |-> (time \div 2048) % 32,
     minutes |-> (time \div 32) % 64,
     seconds |-> (time % 32) * 2]

(***************************************************************************)
(* The origin answering a range request, and fetchRange.                   *)
(***************************************************************************)

FileSize(a) == Len(a)

\* How the origin (or the proxy in front of it) treats one request:
\*   "partial"      honours Range: 206 with Content-Range: bytes s-e/total
\*   "nototal"      honours Range: 206, Content-Range without a total
\*   "full"         ignores Range: 200 with the whole resource
\*   "transformed"  ignores Range: 203 with the whole resource
\*   "missing"      404
ServerKinds == {"partial", "nototal", "full", "transformed", "missing"}

\* The response to `Range: bytes=start-end` (start < 0: the suffix range
\* `bytes=start`).  A range whose end precedes its start is not a valid
\* byte-range-spec and is ignored; a first byte at or after the end of the
\* resource is unsatisfiable.
Origin(a, start, end, kind) ==
    LET size == FileSize(a)
        first == IF start < 0 THEN Max(0, size + start) ELSE start
        last == IF start < 0 THEN size - 1 ELSE Min(end, size - 1)
    IN  IF kind = "missing" THEN [status |-> 404, data |-> NoBuf, total |-> 0]
        ELSE IF kind = "transformed" THEN [status |-> 203, data |-> NoBuf, total |-> 0]
        ELSE IF kind = "full" \/ (start >= 0 /\ end < start)
             THEN [status |-> 200, data |-> NoBuf, total |-> 0]
        ELSE IF first >= size THEN [status |-> 416, data |-> NoBuf, total |-> 0]
        ELSE [status |-> 206,
              data |-> [base |-> first, len |-> last - first + 1],
              total |-> IF kind = "nototal" THEN 0 ELSE size]

\* fetchRange(url, start, end).  ok: the call returned; error: the message of
\* the exception otherwise.  bodyRead, aborted: what happened to the response
\* body.
fetchRangeAccepts200(r) ==
    [ok |-> r.status \in {200, 206}, data |-> r.data, totalSize |-> r.total,
     error |-> IF r.status \in {200, 206} THEN ""
               ELSE IF r.status \in 200..299 THEN "RANGE_NOT_SUPPORTED"
               ELSE "Range request failed",
     status |-> r.status, bodyRead |-> r.status \in {200, 206}, aborted |-> FALSE]

fetchRangeResult(r) ==
    IF r.status = 206
    THEN [ok |-> TRUE, data |-> r.data, totalSize |-> r.total, error |-> "",
          status |-> r.status, bodyRead |-> TRUE, aborted |-> FALSE]
    ELSE [ok |-> FALSE, data |-> NoBuf, totalSize |-> 0,
          error |-> IF r.status \in 200..299 THEN "RANGE_NOT_SUPPORTED"
                    ELSE "Range request failed",
          status |-> r.status, bodyRead |-> FALSE, aborted |-> TRUE]

fetchRange(a, start, end, kind) == fetchRangeResult(Origin(a, start, end, kind))

\* The values the loop variable of the search may take:
\* for (let i = buf.length - 22; i >= 0 && i >= buf.length - 65557; i--).
findEOCDLoop(buf) ==
    {i \in Max(0, buf.len - 65557)..(buf.len - 22) : i >= 0 /\ i >= buf.len - 65557}

\* The positions of the loop where the EOCD signature is read.
findEOCDHits(a, buf) ==
    {i \in findEOCDLoop(buf) : readU32(a, buf, i) = EOCD_SIGNATURE}

\* A bug the direction of the search guards against: the signature at the
\* lowest offset is returned.
findEOCDLowest(a, buf) ==
    LET hits == findEOCDHits(a, buf)
    IN  IF hits = {} THEN -1 ELSE CHOOSE i \in hits : \A j \in hits : i <= j

\* Search backwards for the EOCD signature: the loop counts down and returns
\* at the first position that holds it, -1 when it runs out.
findEOCD(a, buf) ==
    LET hits == findEOCDHits(a, buf)
    IN  IF hits = {} THEN -1 ELSE CHOOSE i \in hits : \A j \in hits : j <= i

\* The indices at which the search reads the buffer (readU32(buf, i)): those
\* of the loop down to the one it returns at.
findEOCDReads(a, buf) ==
    LET found == findEOCD(a, buf)
    IN  {i \in findEOCDLoop(buf) : i >= found}

(***************************************************************************)
(* parseRemoteZip: the Central Directory loop.                             *)
(***************************************************************************)

Slash == 47

\* path.endsWith("/")
EndsWithSlash(path) == Len(path) > 0 /\ path[Len(path)] = Slash

\* The path without its trailing slashes.
RECURSIVE StripSlashes(_)
StripSlashes(p) ==
    IF Len(p) > 0 /\ p[Len(p)] = Slash THEN StripSlashes(SubSeq(p, 1, Len(p) - 1)) ELSE p

\* Where the segment that ends at i begins.
RECURSIVE SegmentStart(_, _)
SegmentStart(p, i) == IF i = 0 \/ p[i] = Slash THEN i + 1 ELSE SegmentStart(p, i - 1)

\* path.split("/").filter(Boolean).pop() || path
BaseName(path) ==
    LET stripped == StripSlashes(path)
    IN  IF stripped = <<>> THEN path
        ELSE SubSeq(stripped, SegmentStart(stripped, Len(stripped)), Len(stripped))

\* A bug the order of the reads guards against: the compressed size taken
\* from the first slot, the uncompressed size from the next.
RECURSIVE Zip64ExtraCompressedFirst(_, _, _, _, _)
Zip64ExtraCompressedFirst(a, cdBuf, ePos, extraEnd, f) ==
    IF ~(ePos + 4 <= extraEnd) THEN f
    ELSE LET headerId == readU16(a, cdBuf, ePos)
             dataSize == readU16(a, cdBuf, ePos + 2)
             limit == ePos + 4 + dataSize
             off1 == ePos + 4
             got1 == f.compressedSize = U32_MAX /\ off1 + 8 <= limit
             off2 == IF got1 THEN off1 + 8 ELSE off1
             got2 == f.uncompressedSize = U32_MAX /\ off2 + 8 <= limit
             off3 == IF got2 THEN off2 + 8 ELSE off2
             got3 == f.localHeaderOffset = U32_MAX /\ off3 + 8 <= limit
         IN  IF headerId = 1
             THEN [uncompressedSize |-> IF got2 THEN readU64(a, cdBuf, off2)
                                        ELSE f.uncompressedSize,
                   compressedSize |-> IF got1 THEN readU64(a, cdBuf, off1)
                                      ELSE f.compressedSize,
                   localHeaderOffset |-> IF got3 THEN readU64(a, cdBuf, off3)
                                         ELSE f.localHeaderOffset]
             ELSE Zip64ExtraCompressedFirst(a, cdBuf, ePos + 4 + dataSize, extraEnd, f)

\* The ZIP64 extended information extra field of one record: the while loop
\* over the extra blocks, from ePos.
RECURSIVE Zip64Extra(_, _, _, _, _)
Zip64Extra(a, cdBuf, ePos, extraEnd, f) ==
    IF ~(ePos + 4 <= extraEnd) THEN f
    ELSE LET headerId == readU16(a, cdBuf, ePos)
             dataSize == readU16(a, cdBuf, ePos + 2)
             limit == ePos + 4 + dataSize
             off1 == ePos + 4
             got1 == f.uncompressedSize = U32_MAX /\ off1 + 8 <= limit
             off2 == IF got1 THEN off1 + 8 ELSE off1
             got2 == f.compressedSize = U32_MAX /\ off2 + 8 <= limit
             off3 == IF got2 THEN off2 + 8 ELSE off2
             got3 == f.localHeaderOffset = U32_MAX /\ off3 + 8 <= limit
         IN  IF headerId = 1
             THEN [uncompressedSize |-> IF got1 THEN readU64(a, cdBuf, off1)
                                        ELSE f.uncompressedSize,
                   compressedSize |-> IF got2 THEN readU64(a, cdBuf, off2)
                                      ELSE f.compressedSize,
                   localHeaderOffset |-> IF got3 THEN readU64(a, cdBuf, off3)
                                         ELSE f.localHeaderOffset]
             ELSE Zip64Extra(a, cdBuf, ePos + 4 + dataSize, extraEnd, f)

\* One Central Directory record at pos, as the entry pushed for it.
CdEntry(a, cdBuf, pos) ==
    LET fileNameLen == readU16(a, cdBuf, pos + 28)
        extraLen == readU16(a, cdBuf, pos + 30)
        path == BufSeq(a, Subarray(cdBuf, pos + 46, pos + 46 + fileNameLen))
        raw == [uncompressedSize |-> readU32(a, cdBuf, pos + 24),
                compressedSize |-> readU32(a, cdBuf, pos + 20),
                localHeaderOffset |-> readU32(a, cdBuf, pos + 42)]
        f == IF raw.compressedSize = U32_MAX \/ raw.uncompressedSize = U32_MAX
                \/ raw.localHeaderOffset = U32_MAX
             THEN Zip64Extra(a, cdBuf, pos + 46 + fileNameLen,
                             pos + 46 + fileNameLen + extraLen, raw)
             ELSE raw
    IN  [path |-> path,
         name |-> BaseName(path),
         isDirectory |-> EndsWithSlash(path),
         compressedSize |-> f.compressedSize,
         uncompressedSize |-> f.uncompressedSize,
         compressionMethod |-> readU16(a, cdBuf, pos + 10),
         localHeaderOffset |-> f.localHeaderOffset,
         lastModified |-> dosToDate(readU16(a, cdBuf, pos + 14),
                                    readU16(a, cdBuf, pos + 12))]

\* The loop condition checked without the signature test.
RECURSIVE CdLoopNoSignature(_, _, _, _, _, _)
CdLoopNoSignature(a, cdBuf, totalEntries, i, pos, entries) ==
    IF ~(i < totalEntries /\ pos + 46 <= cdBuf.len) THEN entries
    ELSE CdLoopNoSignature(a, cdBuf, totalEntries, i + 1,
                pos + 46 + readU16(a, cdBuf, pos + 28) + readU16(a, cdBuf, pos + 30)
                    + readU16(a, cdBuf, pos + 32),
                Append(entries, CdEntry(a, cdBuf, pos)))

\* pos when the loop of step 5 ends: the total length of the records parsed.
RECURSIVE CdLoopEnd(_, _, _, _, _)
CdLoopEnd(a, cdBuf, totalEntries, i, pos) ==
    IF ~(i < totalEntries /\ pos + 46 <= cdBuf.len) THEN pos
    ELSE IF readU32(a, cdBuf, pos) # CD_SIGNATURE THEN pos
    ELSE CdLoopEnd(a, cdBuf, totalEntries, i + 1,
                   pos + 46 + readU16(a, cdBuf, pos + 28) + readU16(a, cdBuf, pos + 30)
                       + readU16(a, cdBuf, pos + 32))

\* for (i = 0; i < totalEntries && pos + 46 <= cdBuf.length; i++) { ... }
RECURSIVE CdLoop(_, _, _, _, _, _)
CdLoop(a, cdBuf, totalEntries, i, pos, entries) ==
    IF ~(i < totalEntries /\ pos + 46 <= cdBuf.len) THEN entries
    ELSE IF readU32(a, cdBuf, pos) # CD_SIGNATURE THEN entries
    ELSE CdLoop(a, cdBuf, totalEntries, i + 1,
                pos + 46 + readU16(a, cdBuf, pos + 28) + readU16(a, cdBuf, pos + 30)
                    + readU16(a, cdBuf, pos + 32),
                Append(entries, CdEntry(a, cdBuf, pos)))

(***************************************************************************)
(* parseRemoteZip as a process: one action per network round trip, each    *)
(* carrying the computation that follows it up to the next request.        *)
(***************************************************************************)

tailSize == 65557

NoDir == [totalEntries |-> 0, cdSize |-> 0, cdOffset |-> 0, eocd64AbsOffset |-> 0]

\* Where parseRemoteZip goes after a step: pc is "ready" (a handle is
\* returned), "failed" (it threw), "eocd64" or "cd" (a fetch is awaited).
Outcome(pc, dir, entries, error) ==
    [pc |-> pc, dir |-> dir, entries |-> entries, error |-> error]

Thrown(error) == Outcome("failed", NoDir, <<>>, error)

\* Step 4 and step 5 when the directory lies in the tail buffer.
Step4(a, tail, fileSize, dir) ==
    LET tailStartInFile == fileSize - tail.len
        relStart == dir.cdOffset - tailStartInFile
    IN  IF dir.cdOffset >= tailStartInFile /\ dir.cdOffset + dir.cdSize <= fileSize
        THEN Outcome("ready", dir,
                     CdLoop(a, Subarray(tail, relStart, relStart + dir.cdSize),
                            dir.totalEntries, 0, 0, <<>>),
                     "")
        ELSE Outcome("cd", dir, <<>>, "")

\* The ZIP64 EOCD record read from eocd64Buf at eocd64Off.
Zip64Record(a, tail, fileSize, eocd64Buf, eocd64RelOffset, eocd64AbsOffset) ==
    LET eocd64Off == IF eocd64RelOffset >= 0 THEN eocd64RelOffset ELSE 0
    IN  IF readU32(a, eocd64Buf, eocd64Off) # EOCD64_SIGNATURE
        THEN Thrown("Invalid ZIP64 EOCD record")
        ELSE Step4(a, tail, fileSize,
                   [totalEntries |-> readU64(a, eocd64Buf, eocd64Off + 32),
                    cdSize |-> readU64(a, eocd64Buf, eocd64Off + 40),
                    cdOffset |-> readU64(a, eocd64Buf, eocd64Off + 48),
                    eocd64AbsOffset |-> eocd64AbsOffset])

\* Steps 2 and 3, run once the tail is there.
AfterTail(a, tail, fileSize) ==
    LET eocdOffset == findEOCD(a, tail)
        eocd64LocatorPos == eocdOffset - 20
        isZip64 == eocd64LocatorPos >= 0
                   /\ readU32(a, tail, eocd64LocatorPos) = EOCD64_LOCATOR_SIGNATURE
        eocd64AbsOffset == readU64(a, tail, eocd64LocatorPos + 8)
        eocd64RelOffset == eocd64AbsOffset - (fileSize - tail.len)
    IN  IF eocdOffset = -1
        THEN Thrown("Not a valid ZIP file")
        ELSE IF isZip64
        THEN IF eocd64RelOffset >= 0 /\ eocd64RelOffset + 56 <= tail.len
             THEN Zip64Record(a, tail, fileSize, tail, eocd64RelOffset, eocd64AbsOffset)
             ELSE Outcome("eocd64", [NoDir EXCEPT !.eocd64AbsOffset = eocd64AbsOffset],
                          <<>>, "")
        ELSE Step4(a, tail, fileSize,
                   [totalEntries |-> readU16(a, tail, eocdOffset + 10),
                    cdSize |-> readU32(a, tail, eocdOffset + 12),
                    cdOffset |-> readU32(a, tail, eocdOffset + 16),
                    eocd64AbsOffset |-> 0])

NoFetch ==
    [ok |-> FALSE, data |-> NoBuf, totalSize |-> 0, error |-> "", status |-> 0,
     bodyRead |-> FALSE, aborted |-> FALSE]

NoCall == [op |-> "none", entry |-> 0, dataStart |-> 0, dataEnd |-> 0, caller |-> "none"]
NoLoop == [selectedPaths |-> <<>>, index |-> 0, zippable |-> <<>>]
NoOp == [op |-> "none", path |-> <<>>, selectedPaths |-> <<>>, data |-> "none",
         bytes |-> <<>>, start |-> 0, end |-> 0, query |-> <<>>, zip |-> <<>>,
         listing |-> <<>>, error |-> ""]

NoSel == [mode |-> "off", paths |-> <<>>, sourceUrl |-> FALSE, allFiles |-> 0]

RemoteIdle ==
    /\ rArchive = "none"
    /\ rBytes = <<>>
    /\ rKnown = 0
    /\ rPc = "off"
    /\ rTail = NoBuf
    /\ rFileSize = 0
    /\ rDir = NoDir
    /\ rEntries = <<>>
    /\ rError = ""
    /\ rFetch = NoFetch
    /\ xCall = NoCall
    /\ sLoop = NoLoop
    /\ lastOp = NoOp
    /\ hSel = NoSel

\* parseRemoteZip(url, onProgress, knownFileSize) is called on some archive;
\* the caller passes the size a HEAD reported, or none.
RemoteInit ==
    /\ rArchive \in Archives
    /\ rBytes = ArchiveBytes(rArchive)
    /\ rKnown \in {0, FileSize(rBytes)}
    /\ rPc = "start"
    /\ rTail = NoBuf
    /\ rFileSize = 0
    /\ rDir = NoDir
    /\ rEntries = <<>>
    /\ rError = ""
    /\ rFetch = NoFetch
    /\ xCall = NoCall
    /\ sLoop = NoLoop
    /\ lastOp = NoOp
    /\ hSel = NoSel

\* parseRemoteZip(url, onProgress, knownFileSize) is called on an archive of
\* the wider menu; the handle it returns is not used further.
ParseInit ==
    /\ rArchive \in ParseArchives
    /\ rBytes = ArchiveBytes(rArchive)
    /\ rKnown \in {0, FileSize(rBytes)}
    /\ rPc = "start"
    /\ rTail = NoBuf
    /\ rFileSize = 0
    /\ rDir = NoDir
    /\ rEntries = <<>>
    /\ rError = ""
    /\ rFetch = NoFetch
    /\ xCall = NoCall
    /\ sLoop = NoLoop
    /\ lastOp = NoOp
    /\ hSel = NoSel

\* parseRemoteZip continues with tail and fileSize, or throws what fetchRange threw.
ParseContinue(f, tail, fileSize) ==
    LET o == IF f.ok THEN AfterTail(rBytes, tail, fileSize) ELSE Thrown(f.error)
    IN  /\ rFetch' = f
        /\ rTail' = IF f.ok THEN tail ELSE rTail
        /\ rFileSize' = fileSize
        /\ rPc' = o.pc
        /\ rDir' = o.dir
        /\ rEntries' = o.entries
        /\ rError' = o.error

\* knownFileSize > 0: the tail by absolute range.
ParseTailKnown ==
    /\ rPc = "start"
    /\ rKnown > 0
    /\ \E kind \in ServerKinds :
         LET f == fetchRange(rBytes, Max(0, rKnown - tailSize), rKnown - 1, kind)
         IN  ParseContinue(f, f.data, IF f.ok /\ f.totalSize > 0 THEN f.totalSize ELSE rKnown)
    /\ UNCHANGED <<rArchive, rBytes, rKnown, xCall, sLoop, lastOp>>
    /\ UNCHANGED <<mediaVars, proxyVars, urlVars, hSel, concVars>>

\* No known size: the tail by suffix range; the catch goes on to HEAD.
ParseTailSuffix ==
    /\ rPc = "start"
    /\ ~(rKnown > 0)
    /\ \E kind \in ServerKinds :
         LET f == fetchRange(rBytes, -tailSize, -1, kind)
         IN  IF f.ok
             THEN ParseContinue(f, f.data, f.totalSize)
             ELSE /\ rFetch' = f
                  /\ rPc' = "head"
                  /\ UNCHANGED <<rTail, rFileSize, rDir, rEntries, rError>>
    /\ UNCHANGED <<rArchive, rBytes, rKnown, xCall, sLoop, lastOp>>
    /\ UNCHANGED <<mediaVars, proxyVars, urlVars, hSel, concVars>>

\* The HEAD of the fallback: Content-Length present, absent, or the request failing.
ParseHead ==
    /\ rPc = "head"
    /\ \E head \in {"length", "nolength", "throws"} :
         IF head = "length"
         THEN /\ rFileSize' = FileSize(rBytes)
              /\ rPc' = "tail"
              /\ UNCHANGED rError
         ELSE /\ rPc' = "failed"
              /\ rError' = IF head = "nolength" THEN "Cannot determine file size"
                           ELSE "fetch failed"
              /\ UNCHANGED rFileSize
    /\ UNCHANGED <<rArchive, rBytes, rKnown, rTail, rDir, rEntries, rFetch, xCall, sLoop, lastOp>>
    /\ UNCHANGED <<mediaVars, proxyVars, urlVars, hSel, concVars>>

\* The tail by absolute range after the HEAD; fileSize stays the HEAD's.
ParseTailAbsolute ==
    /\ rPc = "tail"
    /\ \E kind \in ServerKinds :
         LET f == fetchRange(rBytes, Max(0, rFileSize - tailSize), rFileSize - 1, kind)
         IN  ParseContinue(f, f.data, rFileSize)
    /\ UNCHANGED <<rArchive, rBytes, rKnown, xCall, sLoop, lastOp>>
    /\ UNCHANGED <<mediaVars, proxyVars, urlVars, hSel, concVars>>

\* The ZIP64 EOCD record fetched because it is not in the tail.
ParseFetchEocd64 ==
    /\ rPc = "eocd64"
    /\ \E kind \in ServerKinds :
         LET abs == rDir.eocd64AbsOffset
             f == fetchRange(rBytes, abs, abs + 55, kind)
             o == IF f.ok
                  THEN Zip64Record(rBytes, rTail, rFileSize, f.data,
                                   abs - (rFileSize - rTail.len), abs)
                  ELSE Thrown(f.error)
         IN  /\ rFetch' = f
             /\ rPc' = o.pc
             /\ rDir' = o.dir
             /\ rEntries' = o.entries
             /\ rError' = o.error
    /\ UNCHANGED <<rArchive, rBytes, rKnown, rTail, rFileSize, xCall, sLoop, lastOp>>
    /\ UNCHANGED <<mediaVars, proxyVars, urlVars, hSel, concVars>>

\* The Central Directory fetched because it is not in the tail, then step 5.
ParseFetchCd ==
    /\ rPc = "cd"
    /\ \E kind \in ServerKinds :
         LET f == fetchRange(rBytes, rDir.cdOffset, rDir.cdOffset + rDir.cdSize - 1, kind)
         IN  /\ rFetch' = f
             /\ rPc' = IF f.ok THEN "ready" ELSE "failed"
             /\ rEntries' = IF f.ok
                            THEN CdLoop(rBytes, f.data, rDir.totalEntries, 0, 0, <<>>)
                            ELSE <<>>
             /\ rError' = f.error
    /\ UNCHANGED <<rArchive, rBytes, rKnown, rTail, rFileSize, rDir, xCall, sLoop, lastOp>>
    /\ UNCHANGED <<mediaVars, proxyVars, urlVars, hSel, concVars>>

ParseNext ==
    \/ ParseTailKnown
    \/ ParseTailSuffix
    \/ ParseHead
    \/ ParseTailAbsolute
    \/ ParseFetchEocd64
    \/ ParseFetchCd

(***************************************************************************)
(* fflate's inflateSync(data, {out}) and unzipSync(data), as the engine    *)
(* calls them.  `dat` is a byte sequence.                                  *)
(***************************************************************************)

\* dat[i] with i counted from 0; undefined reads act as 0 in fflate's bit reads.
At0(dat, i) == IF i >= 0 /\ i < Len(dat) THEN dat[i + 1] ELSE 0

\* The block loop of inflt, from the block header at byte p, with `out` written
\* so far into a buffer of outLen bytes that is not resized.  Stored blocks
\* (BTYPE 00) are copied; running out of input or out of buffer throws.
\* Huffman-coded blocks (BTYPE 01, 10), which no archive above contains, are
\* not decoded: the result is then marked "undecoded".
RECURSIVE InflateBlocks(_, _, _, _)
InflateBlocks(dat, p, out, outLen) ==
    LET h == At0(dat, p)
        final == h % 2 = 1
        type == (h \div 2) % 4
        s == p + 5
        l == At0(dat, s - 4) + At0(dat, s - 3) * 256
        t == s + l
    IN  IF type = 3 THEN [ok |-> FALSE, bytes |-> <<>>, error |-> "invalid block type"]
        ELSE IF type # 0 THEN [ok |-> FALSE, bytes |-> <<>>, error |-> "undecoded"]
        ELSE IF t > Len(dat) THEN [ok |-> FALSE, bytes |-> <<>>, error |-> "unexpected EOF"]
        ELSE IF Len(out) + l > outLen
             THEN [ok |-> FALSE, bytes |-> <<>>, error |-> "offset is out of bounds"]
        ELSE IF final
             THEN [ok |-> TRUE, bytes |-> out \o SubSeq(dat, s + 1, t), error |-> ""]
        ELSE InflateBlocks(dat, t, out \o SubSeq(dat, s + 1, t), outLen)

\* inflateSync(dat, { out: new Uint8Array(outLen) }): the written prefix of the
\* buffer; on empty input the buffer itself.
inflateSync(dat, outLen) ==
    IF Len(dat) = 0 THEN [ok |-> TRUE, bytes |-> Zeros(outLen), error |-> ""]
    ELSE InflateBlocks(dat, 0, <<>>, outLen)

\* zippable[path] = data on an object kept as the sequence of its own keys in
\* insertion order (no path of the model is an integer index).
RECURSIVE PutKey(_, _, _)
PutKey(obj, path, data) ==
    IF obj = <<>> THEN <<[path |-> path, data |-> data]>>
    ELSE IF Head(obj).path = path THEN <<[path |-> path, data |-> data]>> \o Tail(obj)
    ELSE <<Head(obj)>> \o PutKey(Tail(obj), path, data)

(***************************************************************************)
(* The on-demand extractors: extractRemoteFile, downloadRemoteFile and     *)
(* extractRemoteFileRaw, and createZipFromRemoteSelection around the last; *)
(* the URL builders getStreamingMediaUrl and getDirectFileUrl.             *)
(***************************************************************************)

FILE_SIZE_LIMITS_PREVIEW == 26214400
DOWNLOAD_SIZE_LIMIT == 104857600

\* longest selection handed to createZipFromRemoteSelection
MaxSelection == 2

Extractors == {"extractRemoteFile", "downloadRemoteFile", "extractRemoteFileRaw"}
\* The operations that read the Local File Header only and return a proxy URL.
UrlBuilders == {"getStreamingMediaUrl", "getDirectFileUrl"}
EntryOps == Extractors \cup UrlBuilders

\* a path no archive of the model holds ("x")
AbsentPath == <<120>>

\* handle.entries.find((e) => e.path === entryPath): the index, 0 for undefined
RECURSIVE FindEntry(_, _, _)
FindEntry(entries, entryPath, i) ==
    IF i > Len(entries) THEN 0
    ELSE IF entries[i].path = entryPath THEN i
    ELSE FindEntry(entries, entryPath, i + 1)

Supported(entry) ==
    entry.compressionMethod \in {COMPRESSION_STORED, COMPRESSION_DEFLATE}

\* What an operation on an entry returns.  data: "bytes" (a byte array, or a
\* preview or blob URL built from one), "stream" (the __STREAM__ URL of
\* start..end), "url" (the proxy URL of start..end with the further query
\* parameters), "none" (null, or a PreviewState without content).
Returned(data, bytes, error) ==
    [data |-> data, bytes |-> bytes, start |-> 0, end |-> 0, query |-> <<>>,
     error |-> error]

\* `${handle.url}${separator}start=${dataStart}&end=${dataEnd}` and the
\* parameters that follow, each with its value (1 for a flag or a text).
ReturnedUrl(dataStart, dataEnd, query) ==
    [data |-> "url", bytes |-> <<>>, start |-> dataStart, end |-> dataEnd,
     query |-> query, error |-> ""]

Param(k, v) == [k |-> k, v |-> v]

ReturnedNull == Returned("none", <<>>, "")

\* The checks made before the first request: a result when the extractor
\* returns at once, [data |-> "await"] when it goes on to fetch.
\* A bug the preview limit guards against: the size test left out.
PrecheckNoSizeLimit(op, entries, entryPath) ==
    LET i == FindEntry(entries, entryPath, 1)
        entry == entries[i]
    IN  IF op = "extractRemoteFile"
        THEN IF i = 0 THEN Returned("none", <<>>, "File not found in archive")
             ELSE IF entry.isDirectory THEN ReturnedNull
             ELSE IF ~Supported(entry)
                  THEN Returned("none", <<>>, "Unsupported compression method")
             ELSE Returned("await", <<>>, "")
        ELSE IF i = 0 \/ entry.isDirectory THEN ReturnedNull
        ELSE IF op \in {"extractRemoteFileRaw", "getDirectFileUrl"} /\ ~Supported(entry)
        THEN ReturnedNull
        ELSE IF op = "getStreamingMediaUrl" /\ entry.compressionMethod # COMPRESSION_STORED
        THEN ReturnedNull
        ELSE Returned("await", <<>>, "")

\* The checks each extractor makes before its first request.
Precheck(op, entries, entryPath) ==
    LET i == FindEntry(entries, entryPath, 1)
        entry == entries[i]
    IN  IF op = "extractRemoteFile"
        THEN IF i = 0 THEN Returned("none", <<>>, "File not found in archive")
             ELSE IF entry.isDirectory THEN ReturnedNull
             ELSE IF entry.uncompressedSize > FILE_SIZE_LIMITS_PREVIEW
                  THEN Returned("none", <<>>, "File too large for preview")
             ELSE IF ~Supported(entry)
                  THEN Returned("none", <<>>, "Unsupported compression method")
             ELSE Returned("await", <<>>, "")
        ELSE IF i = 0 \/ entry.isDirectory THEN ReturnedNull
        ELSE IF op \in {"extractRemoteFileRaw", "getDirectFileUrl"} /\ ~Supported(entry)
        THEN ReturnedNull
        ELSE IF op = "getStreamingMediaUrl" /\ entry.compressionMethod # COMPRESSION_STORED
        THEN ReturnedNull
        ELSE Returned("await", <<>>, "")

\* The catch of each extractor.
Caught(op, message) ==
    IF op = "extractRemoteFile" THEN Returned("none", <<>>, message) ELSE ReturnedNull

\* The operations that verify the signature of the Local File Header:
\* extractRemoteFile throws on a mismatch, the URL builders return null;
\* downloadRemoteFile and extractRemoteFileRaw read the header unverified.
ChecksLfhSignature(op) == op \in {"extractRemoteFile"} \cup UrlBuilders

\* After the Local File Header arrived in lfhBuf: a result, or the data range.
AfterLfh(op, a, entry, lfhBuf) ==
    LET dataStart == entry.localHeaderOffset + 30 + readU16(a, lfhBuf, 26)
                     + readU16(a, lfhBuf, 28)
        dataEnd == dataStart + entry.compressedSize - 1
    IN  IF ChecksLfhSignature(op) /\ readU32(a, lfhBuf, 0) # LFH_SIGNATURE
        THEN Caught(op, "Invalid Local File Header")
        ELSE IF op = "getStreamingMediaUrl"
        THEN ReturnedUrl(dataStart, dataEnd, <<Param("media", 1), Param("type", 1)>>)
        ELSE IF op = "getDirectFileUrl"
        THEN ReturnedUrl(dataStart, dataEnd,
                         <<Param("download", 1)>> \o
                         (IF entry.compressionMethod = COMPRESSION_DEFLATE
                          THEN <<Param("inflate", 1), Param("size", entry.uncompressedSize)>>
                          ELSE <<>>))
        ELSE IF op = "downloadRemoteFile" /\ entry.compressedSize > DOWNLOAD_SIZE_LIMIT
        THEN IF entry.compressionMethod = COMPRESSION_STORED
             THEN [data |-> "stream", bytes |-> <<>>, start |-> dataStart,
                   end |-> dataEnd, query |-> <<Param("download", 1)>>, error |-> ""]
             ELSE ReturnedNull
        ELSE [data |-> "await", bytes |-> <<>>, start |-> dataStart, end |-> dataEnd,
              query |-> <<>>, error |-> ""]

\* After the compressed data arrived: fileData.
Decode(op, a, entry, compressedData) ==
    LET inflated == inflateSync(BufSeq(a, compressedData), entry.uncompressedSize)
    IN  IF entry.compressionMethod = COMPRESSION_STORED
        THEN Returned("bytes", BufSeq(a, compressedData), "")
        ELSE IF entry.compressionMethod = COMPRESSION_DEFLATE \/ op = "extractRemoteFile"
        THEN IF inflated.ok THEN Returned("bytes", inflated.bytes, "")
             ELSE Caught(op, inflated.error)
        ELSE ReturnedNull

lfhSize == 542

\* The range of the request for the Local File Header of an entry.
LfhRange(entry) ==
    [start |-> entry.localHeaderOffset,
     end |-> entry.localHeaderOffset + lfhSize - 1]

\* The extractors do not read the total of Content-Range, and treat every 2xx
\* other than 206 alike: three kinds of answer tell their paths apart.
ExtractKinds == {"partial", "full", "missing"}

\* The for loop of createZipFromRemoteSelection from selectedPaths[index], up
\* to the next extraction that has to fetch, or to the end of the loop.  An
\* extraction that returns null at once adds nothing to zippable.
RECURSIVE LoopRun(_, _, _, _)
LoopRun(entries, selectedPaths, index, zippable) ==
    IF index > Len(selectedPaths)
    THEN [done |-> TRUE, index |-> index, zippable |-> zippable]
    ELSE IF Precheck("extractRemoteFileRaw", entries, selectedPaths[index]).data # "await"
    THEN LoopRun(entries, selectedPaths, index + 1, zippable)
    ELSE [done |-> FALSE, index |-> index, zippable |-> zippable]

\* zipSync(zippable), as the list of the members of the new archive.
zipSync(zippable) ==
    [i \in 1..Len(zippable) |-> [path |-> zippable[i].path, size |-> Len(zippable[i].data)]]

\* An extractor called by the user returned `r`.
OpReturned(op, path, r) ==
    [NoOp EXCEPT !.op = op, !.path = path, !.data = r.data, !.bytes = r.bytes,
                 !.start = r.start, !.end = r.end, !.query = r.query,
                 !.error = r.error]

\* createZipFromRemoteSelection goes on from the loop state `l`: to the next
\* fetching extraction, or to zipSync and its return (null for an empty object).
LoopGo(selectedPaths, l) ==
    IF l.done
    THEN /\ lastOp' = [NoOp EXCEPT !.op = "createZipFromRemoteSelection",
                                   !.selectedPaths = selectedPaths,
                                   !.data = IF l.zippable = <<>> THEN "none" ELSE "zip",
                                   !.zip = zipSync(l.zippable)]
         /\ rPc' = "ready"
         /\ xCall' = NoCall
         /\ sLoop' = NoLoop
    ELSE /\ lastOp' = NoOp
         /\ rPc' = "lfh"
         /\ xCall' = [op |-> "extractRemoteFileRaw",
                      entry |-> FindEntry(rEntries, selectedPaths[l.index], 1),
                      dataStart |-> 0, dataEnd |-> 0, caller |-> "selection"]
         /\ sLoop' = [selectedPaths |-> selectedPaths, index |-> l.index,
                      zippable |-> l.zippable]

\* The extraction in progress returns `r` to its caller.
Finish(r) ==
    IF xCall.caller = "selection"
    THEN LoopGo(sLoop.selectedPaths,
                LoopRun(rEntries, sLoop.selectedPaths, sLoop.index + 1,
                        IF r.data = "bytes"
                        THEN PutKey(sLoop.zippable, sLoop.selectedPaths[sLoop.index], r.bytes)
                        ELSE sLoop.zippable))
    ELSE /\ lastOp' = OpReturned(xCall.op, rEntries[xCall.entry].path, r)
         /\ rPc' = "ready"
         /\ xCall' = NoCall
         /\ UNCHANGED sLoop

EntryPaths == {rEntries[i].path : i \in 1..Len(rEntries)}

\* No operation has been started on the handle yet.  A behaviour follows one
\* operation: none of them writes the handle, so an operation started after
\* another one has returned runs as it does when it is the first.
Fresh == lastOp = NoOp /\ xCall = NoCall

\* The user previews or downloads an entry, or the raw bytes or a URL of one
\* are asked for.
ExtractStart ==
    /\ rPc = "ready"
    /\ Fresh
    /\ \E op \in EntryOps, entryPath \in EntryPaths \cup {AbsentPath} :
         LET pre == Precheck(op, rEntries, entryPath)
         IN  IF pre.data # "await"
             THEN /\ lastOp' = OpReturned(op, entryPath, pre)
                  /\ UNCHANGED <<rPc, xCall>>
             ELSE /\ lastOp' = NoOp
                  /\ rPc' = "lfh"
                  /\ xCall' = [op |-> op, entry |-> FindEntry(rEntries, entryPath, 1),
                               dataStart |-> 0, dataEnd |-> 0, caller |-> "user"]
    /\ UNCHANGED <<rArchive, rBytes, rKnown, rTail, rFileSize, rDir, rEntries, rError,
                   rFetch, sLoop>>
    /\ UNCHANGED <<mediaVars, proxyVars, urlVars, hSel, concVars>>

\* Step 1: the Local File Header arrives (or its request fails).
ExtractLfh ==
    /\ rPc = "lfh"
    /\ \E kind \in ExtractKinds :
         LET entry == rEntries[xCall.entry]
             f == fetchRange(rBytes, LfhRange(entry).start, LfhRange(entry).end, kind)
             r == AfterLfh(xCall.op, rBytes, entry, f.data)
         IN  /\ rFetch' = f
             /\ IF ~f.ok THEN Finish(Caught(xCall.op, f.error))
                ELSE IF r.data # "await" THEN Finish(r)
                ELSE /\ rPc' = "data"
                     /\ xCall' = [xCall EXCEPT !.dataStart = r.start, !.dataEnd = r.end]
                     /\ UNCHANGED <<sLoop, lastOp>>
    /\ UNCHANGED <<rArchive, rBytes, rKnown, rTail, rFileSize, rDir, rEntries, rError>>
    /\ UNCHANGED <<mediaVars, proxyVars, urlVars, hSel, concVars>>

\* Steps 2 and 3: the compressed data arrives (or its request fails) and is decoded.
ExtractData ==
    /\ rPc = "data"
    /\ \E kind \in ExtractKinds :
         LET entry == rEntries[xCall.entry]
             f == fetchRange(rBytes, xCall.dataStart, xCall.dataEnd, kind)
         IN  /\ rFetch' = f
             /\ IF ~f.ok THEN Finish(Caught(xCall.op, f.error))
                ELSE Finish(Decode(xCall.op, rBytes, entry, f.data))
    /\ UNCHANGED <<rArchive, rBytes, rKnown, rTail, rFileSize, rDir, rEntries, rError>>
    /\ UNCHANGED <<mediaVars, proxyVars, urlVars, hSel, concVars>>

\* The selections: the paths of some entries, each once, in the order chosen.
Selections ==
    {sel \in UNION {[1..n -> EntryPaths] : n \in 0..MaxSelection} :
        \A i, j \in 1..Len(sel) : i # j => sel[i] # sel[j]}

\* createZipFromRemoteSelection(handle, selectedPaths, ...) is called.
SelectionStart ==
    /\ rPc = "ready"
    /\ Fresh
    /\ \E selectedPaths \in Selections :
         IF Len(selectedPaths) = 0
         THEN /\ lastOp' = [NoOp EXCEPT !.op = "createZipFromRemoteSelection"]
              /\ UNCHANGED <<rPc, xCall, sLoop>>
         ELSE LoopGo(selectedPaths, LoopRun(rEntries, selectedPaths, 1, <<>>))
    /\ UNCHANGED <<rArchive, rBytes, rKnown, rTail, rFileSize, rDir, rEntries, rError,
                   rFetch>>
    /\ UNCHANGED <<mediaVars, proxyVars, urlVars, hSel, concVars>>

ExtractNext ==
    \/ ExtractStart
    \/ ExtractLfh
    \/ ExtractData
    \/ SelectionStart

(***************************************************************************)
(* Full-download mode: fetchAndParseZip = fetch, unzipSync, buildEntries.  *)
(***************************************************************************)

Whole(a) == [base |-> 0, len |-> Len(a)]

\* unzipSync: the backward search for the EOCD signature; -1 when it gives up.
RECURSIVE UnzipFindEnd(_, _)
UnzipFindEnd(a, e) ==
    IF readU32(a, Whole(a), e) = EOCD_SIGNATURE THEN e
    ELSE IF e <= 0 \/ Len(a) - e > 65558 THEN -1
    ELSE UnzipFindEnd(a, e - 1)

\* unzipSync: the ZIP64 extra block of a record (z64e), searched from b; it
\* runs off the data when there is none.
RECURSIVE UnzipZip64Extra(_, _)
UnzipZip64Extra(a, b) ==
    IF b >= Len(a) THEN [ok |-> FALSE, sc |-> 0, su |-> 0, off |-> 0]
    ELSE IF readU16(a, Whole(a), b) = 1
    THEN [ok |-> TRUE, sc |-> readU64(a, Whole(a), b + 12),
          su |-> readU64(a, Whole(a), b + 4), off |-> readU64(a, Whole(a), b + 20)]
    ELSE UnzipZip64Extra(a, b + 4 + readU16(a, Whole(a), b + 2))

\* unzipSync: the loop over the c records declared, from the record at o; no
\* signature is looked at.  files: the object built so far.
RECURSIVE UnzipLoop(_, _, _, _, _, _)
UnzipLoop(a, c, i, o, z, files) ==
    IF ~(i < c) THEN [ok |-> TRUE, files |-> files]
    ELSE
    LET d == Whole(a)
        fnl == readU16(a, d, o + 28)
        fn == BufSeq(a, Subarray(d, o + 46, o + 46 + fnl))
        es == o + 46 + fnl
        bs == readU32(a, d, o + 20)
        x == IF z /\ bs = U32_MAX THEN UnzipZip64Extra(a, es)
             ELSE [ok |-> TRUE, sc |-> bs, su |-> readU32(a, d, o + 24),
                   off |-> readU32(a, d, o + 42)]
        method == readU16(a, d, o + 10)
        no == es + readU16(a, d, o + 30) + readU16(a, d, o + 32)
        b == x.off + 30 + readU16(a, d, x.off + 26) + readU16(a, d, x.off + 28)
        stored == BufSeq(a, Subarray(d, b, b + x.sc))
        inflated == inflateSync(stored, x.su)
    IN  IF ~x.ok THEN [ok |-> FALSE, files |-> <<>>]
        ELSE IF method = 0
        THEN UnzipLoop(a, c, i + 1, no, z, PutKey(files, fn, stored))
        ELSE IF method = 8 /\ inflated.ok
        THEN UnzipLoop(a, c, i + 1, no, z, PutKey(files, fn, inflated.bytes))
        ELSE [ok |-> FALSE, files |-> <<>>]

\* unzipSync(data): the object of path -> bytes, or a throw.
unzipSync(a) ==
    LET d == Whole(a)
        e == UnzipFindEnd(a, Len(a) - 22)
        c0 == readU16(a, d, e + 8)
        o0 == readU32(a, d, e + 16)
        ze == readU32(a, d, e - 12)
        z == (o0 = U32_MAX \/ c0 = 65535) /\ readU32(a, d, ze) = EOCD64_SIGNATURE
    IN  IF e = -1 THEN [ok |-> FALSE, files |-> <<>>]
        ELSE IF c0 = 0 THEN [ok |-> TRUE, files |-> <<>>]
        ELSE UnzipLoop(a, IF z THEN readU32(a, d, ze + 32) ELSE c0, 0,
                       IF z THEN readU32(a, d, ze + 48) ELSE o0, z, <<>>)

\* new Date() at the time the listing is built: later than every time
\* stamp recorded in the archive being listed.
Now == [year |-> 2026, month |-> 10, day |-> 2, hours |-> 12, minutes |-> 0, seconds |-> 0]

\* buildEntries(unzipped)
buildEntries(unzipped) ==
    [i \in 1..Len(unzipped) |->
        [path |-> unzipped[i].path,
         name |-> BaseName(unzipped[i].path),
         isDirectory |-> EndsWithSlash(unzipped[i].path),
         size |-> Len(unzipped[i].data),
         compressedSize |-> Len(unzipped[i].data),
         lastModified |-> Now]]

\* remoteEntriesToZipEntries(entries)
remoteEntriesToZipEntries(entries) ==
    [i \in 1..Len(entries) |->
        [path |-> entries[i].path,
         name |-> entries[i].name,
         isDirectory |-> entries[i].isDirectory,
         size |-> entries[i].uncompressedSize,
         compressedSize |-> entries[i].compressedSize,
         lastModified |-> entries[i].lastModified]]

\* The archive is loaded in full-download mode: after range parsing threw, or
\* while a handle from range parsing is held.  The download fails, or unzipSync
\* throws, or the listing is built.
FetchAndParseZip ==
    /\ rPc \in {"ready", "failed"}
    /\ Fresh
    /\ \E response \in {"ok", "error"} :
         LET unzipped == unzipSync(rBytes)
         IN  lastOp' = IF response = "error"
                       THEN [NoOp EXCEPT !.op = "fetchAndParseZip",
                                         !.error = "Failed to fetch"]
                       ELSE IF ~unzipped.ok
                       THEN [NoOp EXCEPT !.op = "fetchAndParseZip",
                                         !.error = "unzipSync threw"]
                       ELSE [NoOp EXCEPT !.op = "fetchAndParseZip", !.data = "listing",
                                         !.listing = buildEntries(unzipped.files)]
    /\ UNCHANGED <<rArchive, rBytes, rKnown, rPc, rTail, rFileSize, rDir, rEntries, rError,
                   rFetch, xCall, sLoop>>
    /\ UNCHANGED <<mediaVars, proxyVars, urlVars, hSel, concVars>>

(***************************************************************************)
(* The selection download of the stats bar: handleExtractSelected, with    *)
(* downloadSingleFile, downloadSingleRemoteFile and createZipFromSelection.*)
(***************************************************************************)

\* path.split("/").pop() || path
PopName(path) ==
    LET seg == SubSeq(path, SegmentStart(path, Len(path)), Len(path))
    IN  IF seg = <<>> THEN path ELSE seg

\* zipState.entries.filter((e) => !e.isDirectory), as paths
FilePaths(entries) ==
    {entries[i].path : i \in {j \in 1..Len(entries) : ~entries[j].isDirectory}}

\* Array.from(selectedPaths): the explorer toggles the paths of files only
\* (a click on a directory expands it), each once, in the order chosen.
FileSelections(entries) ==
    {sel \in UNION {[1..n -> FilePaths(entries)] : n \in 0..MaxSelection} :
        \A i, j \in 1..Len(sel) : i # j => sel[i] # sel[j]}

\* A bug the shortcut guards against: the whole selection never recognised.
AllFilesSelectedNever(paths, allFiles, sourceUrl) == FALSE

\* paths.length === allFiles.length && sourceUrl
AllFilesSelected(paths, allFiles, sourceUrl) ==
    Len(paths) = Cardinality(allFiles) /\ sourceUrl

\* unzipped[path]: the index of the key, 0 when there is none.
RECURSIVE FindKey(_, _, _)
FindKey(obj, path, i) ==
    IF i > Len(obj) THEN 0
    ELSE IF obj[i].path = path THEN i
    ELSE FindKey(obj, path, i + 1)

\* The loop of createZipFromSelection: zippable[path] = unzipped[path] for
\* the selected paths that are keys of unzipped.
RECURSIVE SelectionZippable(_, _, _, _)
SelectionZippable(unzipped, selectedPaths, index, zippable) ==
    IF index > Len(selectedPaths) THEN zippable
    ELSE LET k == FindKey(unzipped, selectedPaths[index], 1)
         IN  SelectionZippable(unzipped, selectedPaths, index + 1,
                               IF k = 0 THEN zippable
                               ELSE PutKey(zippable, selectedPaths[index], unzipped[k].data))

\* handleExtractSelected with a remote handle (unzipped is null): one file is
\* fetched by downloadSingleRemoteFile; the whole of a URL source is opened;
\* anything else is re-archived by createZipFromRemoteSelection.
HandleExtractSelectedRemote ==
    /\ rPc = "ready"
    /\ Fresh
    /\ \E paths \in FileSelections(remoteEntriesToZipEntries(rEntries)), sourceUrl \in BOOLEAN :
         LET allFiles == FilePaths(remoteEntriesToZipEntries(rEntries))
             pre == Precheck("downloadRemoteFile", rEntries, paths[1])
         IN  /\ Len(paths) > 0
             /\ hSel' = [mode |-> "remote", paths |-> paths, sourceUrl |-> sourceUrl,
                         allFiles |-> Cardinality(allFiles)]
             /\ IF Len(paths) = 1
                THEN IF pre.data # "await"
                     THEN /\ lastOp' = OpReturned("downloadRemoteFile", paths[1], pre)
                          /\ UNCHANGED <<rPc, xCall, sLoop>>
                     ELSE /\ lastOp' = NoOp
                          /\ rPc' = "lfh"
                          /\ xCall' = [op |-> "downloadRemoteFile",
                                       entry |-> FindEntry(rEntries, paths[1], 1),
                                       dataStart |-> 0, dataEnd |-> 0, caller |-> "user"]
                          /\ UNCHANGED sLoop
                ELSE IF AllFilesSelected(paths, allFiles, sourceUrl)
                THEN /\ lastOp' = [NoOp EXCEPT !.op = "window.open"]
                     /\ UNCHANGED <<rPc, xCall, sLoop>>
                ELSE LoopGo(paths, LoopRun(rEntries, paths, 1, <<>>))
    /\ UNCHANGED <<rArchive, rBytes, rKnown, rTail, rFileSize, rDir, rEntries, rError,
                   rFetch>>
    /\ UNCHANGED <<mediaVars, proxyVars, urlVars, concVars>>

\* handleExtractSelected on an archive loaded in full-download mode (unzipped
\* is set): downloadSingleFile, the source URL, or createZipFromSelection.
HandleExtractSelectedLocal ==
    /\ rPc \in {"ready", "failed"}
    /\ Fresh
    /\ unzipSync(rBytes).ok
    /\ LET unzipped == unzipSync(rBytes).files
           entries == buildEntries(unzipped)
           allFiles == FilePaths(entries)
       IN  \E paths \in FileSelections(entries), sourceUrl \in BOOLEAN :
             LET k == FindKey(unzipped, paths[1], 1)
                 zippable == SelectionZippable(unzipped, paths, 1, <<>>)
             IN  /\ Len(paths) > 0
                 /\ hSel' = [mode |-> "local", paths |-> paths, sourceUrl |-> sourceUrl,
                             allFiles |-> Cardinality(allFiles)]
                 /\ lastOp' =
                      IF Len(paths) = 1
                      THEN IF k = 0
                           THEN [NoOp EXCEPT !.op = "downloadSingleFile", !.path = paths[1]]
                           ELSE [NoOp EXCEPT !.op = "downloadSingleFile", !.path = paths[1],
                                             !.data = "bytes", !.bytes = unzipped[k].data]
                      ELSE IF AllFilesSelected(paths, allFiles, sourceUrl)
                      THEN [NoOp EXCEPT !.op = "window.open"]
                      ELSE [NoOp EXCEPT !.op = "createZipFromSelection",
                                        !.selectedPaths = paths,
                                        !.data = IF zippable = <<>> THEN "none" ELSE "zip",
                                        !.zip = zipSync(zippable)]
    /\ UNCHANGED <<rArchive, rBytes, rKnown, rPc, rTail, rFileSize, rDir, rEntries, rError,
                   rFetch, xCall, sLoop>>
    /\ UNCHANGED <<mediaVars, proxyVars, urlVars, concVars>>

HandleNext == HandleExtractSelectedRemote \/ HandleExtractSelectedLocal

\* handleExtractSelected has returned.
HandleReturned == hSel.mode # "off" /\ lastOp # NoOp

\* What the call made the browser do: "download" (downloadBlobUrl of a
\* file's bytes or of the new ZIP, under `name`), "open" (window.open of the
\* source URL or of a __STREAM__ URL), "alert", or nothing.
Browser ==
    LET none == [kind |-> "none", name |-> <<>>, what |-> "none"]
    IN  IF lastOp.op \in {"downloadRemoteFile", "downloadSingleFile"}
        THEN IF lastOp.data = "bytes"
             THEN [kind |-> "download", name |-> PopName(lastOp.path), what |-> "file"]
             ELSE IF lastOp.data = "stream"
             THEN [kind |-> "open", name |-> <<>>, what |-> "stream"]
             ELSE IF lastOp.op = "downloadRemoteFile"
             THEN [kind |-> "alert", name |-> <<>>, what |-> "none"]
             ELSE none
        ELSE IF lastOp.op = "window.open"
        THEN [kind |-> "open", name |-> <<>>, what |-> "source"]
        ELSE IF lastOp.data = "zip"
        THEN [kind |-> "download", name |-> <<>>, what |-> "zip"]
        ELSE none

(***************************************************************************)
(* Operations on one handle running concurrently: several calls of the     *)
(* extractors and URL builders are in progress at once, each at one of its *)
(* awaits, and their steps interleave.  The handle is shared by reference; *)
(* lfhBuf, dataStart and the AbortController of each fetchRange call are   *)
(* locals of the call.                                                     *)
(***************************************************************************)

\* calls in progress at once
ConcOps == 2
Slots == 1..ConcOps

\* The archives the concurrent calls read: two members, the first Local File
\* Header intact or not.
ConcArchives ==
    {[members |-> <<MemberStored, MemberDeflate>>, flaw |-> "badlfh"],
     [members |-> <<MemberBadSize, MemberDir>>, flaw |-> "none"]}

\* How the source answers a request of a concurrent call: 206, or an error
\* status (on which fetchRange aborts and throws).
ConcKinds == {"partial", "missing"}

HandleUrls == {"https://origin/a.zip", "/api/proxy?url=a.zip"}

NoHandle == [url |-> "", fileSize |-> 0, entries |-> <<>>, proxied |-> FALSE]

\* The handle parseRemoteZip(url) returns for the resource `a` served by an
\* origin that honours ranges: { url, fileSize, entries, proxied }.
parseRemoteZip(a, url) ==
    LET result == fetchRange(a, -tailSize, -1, "partial")
        o == AfterTail(a, result.data, result.totalSize)
    IN  [url |-> url, fileSize |-> result.totalSize, entries |-> o.entries,
         proxied |-> url = "/api/proxy?url=a.zip"]

\* One call.  pc: "idle" (not made), "lfh" / "data" (awaiting the fetchRange of
\* the header / of the data), "done" (returned `result`).  kinds: how the
\* source answers the requests of the call, in order.  controller: the
\* AbortController of the fetchRange awaited; aborted: its signal has fired.
NoSlot ==
    [op |-> "none", path |-> <<>>, pc |-> "idle", entry |-> 0, kinds |-> <<>>,
     controller |-> <<0, 0>>, aborted |-> FALSE, dataStart |-> 0, dataEnd |-> 0,
     result |-> ReturnedNull]

ConcIdle ==
    /\ cHandle = NoHandle
    /\ cOps = <<>>
    /\ cOverlapped = FALSE

\* A handle has been returned for some archive; no call has been made yet.
ConcInit ==
    /\ rArchive \in ConcArchives
    /\ rBytes = ArchiveBytes(rArchive)
    /\ \E url \in HandleUrls : cHandle = parseRemoteZip(rBytes, url)
    /\ cOps = [s \in Slots |-> NoSlot]
    /\ cOverlapped = FALSE
    /\ rKnown = 0
    /\ rPc = "off"
    /\ rTail = NoBuf
    /\ rFileSize = 0
    /\ rDir = NoDir
    /\ rEntries = <<>>
    /\ rError = ""
    /\ rFetch = NoFetch
    /\ xCall = NoCall
    /\ sLoop = NoLoop
    /\ lastOp = NoOp
    /\ hSel = NoSel

\* A bug the per-call controller guards against: one AbortController shared
\* by every fetchRange call.
ControllerShared(s, n) == <<0, 1>>

\* const controller = new AbortController(): a new one in each fetchRange
\* call, here the n-th call of the operation in slot s.
Controller(s, n) == <<s, n>>

\* controller.abort(): every request in flight that was given the signal of
\* controller c is rejected.
Abort(ops, c) ==
    [t \in Slots |->
        IF ops[t].pc \in {"lfh", "data"} /\ ops[t].controller = c
        THEN [ops[t] EXCEPT !.aborted = TRUE]
        ELSE ops[t]]

\* Two calls await a response at the same time.
Overlap(ops) == \E s, t \in Slots : s # t /\ ops[s].pc \in {"lfh", "data"}
                                          /\ ops[t].pc \in {"lfh", "data"}

HandlePaths == {cHandle.entries[i].path : i \in 1..Len(cHandle.entries)}

\* The call in slot s returns r.
SlotDone(s, r) ==
    [cOps[s] EXCEPT !.pc = "done", !.result = r, !.aborted = FALSE]

\* A call is made: the checks before the first request, then the request for
\* the Local File Header.
ConcStart(s) ==
    /\ cOps[s].pc = "idle"
    /\ \E op \in EntryOps, entryPath \in HandlePaths \cup {AbsentPath}, kind \in ConcKinds :
         LET pre == Precheck(op, cHandle.entries, entryPath)
             call == [cOps[s] EXCEPT !.op = op, !.path = entryPath]
         IN  cOps' = [cOps EXCEPT ![s] =
                IF pre.data # "await"
                THEN [call EXCEPT !.pc = "done", !.result = pre]
                ELSE [call EXCEPT !.pc = "lfh",
                                  !.entry = FindEntry(cHandle.entries, entryPath, 1),
                                  !.kinds = <<kind>>,
                                  !.controller = Controller(s, 1)]]
    /\ cOverlapped' = (cOverlapped \/ Overlap(cOps'))
    /\ UNCHANGED cHandle
    /\ UNCHANGED <<mediaVars, proxyVars, urlVars, remoteVars>>

\* The fetchRange of the Local File Header settles: rejected when its signal
\* fired; else answered, with controller.abort() for an answer other than 206.
ConcLfh(s) ==
    /\ cOps[s].pc = "lfh"
    /\ \E kind \in ConcKinds :
         LET c == cOps[s]
             entry == cHandle.entries[c.entry]
             f == fetchRange(rBytes, LfhRange(entry).start, LfhRange(entry).end,
                             c.kinds[1])
             r == AfterLfh(c.op, rBytes, entry, f.data)
             next == IF c.aborted THEN SlotDone(s, Caught(c.op, "The operation was aborted"))
                     ELSE IF ~f.ok THEN SlotDone(s, Caught(c.op, f.error))
                     ELSE IF r.data # "await" THEN SlotDone(s, r)
                     ELSE [c EXCEPT !.pc = "data", !.dataStart = r.start,
                                    !.dataEnd = r.end,
                                    !.kinds = Append(@, kind),
                                    !.controller = Controller(s, 2)]
             ops == [cOps EXCEPT ![s] = next]
         IN  cOps' = IF ~c.aborted /\ f.aborted THEN Abort(ops, c.controller) ELSE ops
    /\ cOverlapped' = (cOverlapped \/ Overlap(cOps'))
    /\ UNCHANGED cHandle
    /\ UNCHANGED <<mediaVars, proxyVars, urlVars, remoteVars>>

\* The fetchRange of the data settles, and the data is decoded.
ConcData(s) ==
    /\ cOps[s].pc = "data"
    /\ LET c == cOps[s]
           entry == cHandle.entries[c.entry]
           f == fetchRange(rBytes, c.dataStart, c.dataEnd, c.kinds[2])
           next == IF c.aborted THEN SlotDone(s, Caught(c.op, "The operation was aborted"))
                   ELSE IF ~f.ok THEN SlotDone(s, Caught(c.op, f.error))
                   ELSE SlotDone(s, Decode(c.op, rBytes, entry, f.data))
           ops == [cOps EXCEPT ![s] = next]
       IN  cOps' = IF ~c.aborted /\ f.aborted THEN Abort(ops, c.controller) ELSE ops
    /\ cOverlapped' = (cOverlapped \/ Overlap(cOps'))
    /\ UNCHANGED cHandle
    /\ UNCHANGED <<mediaVars, proxyVars, urlVars, remoteVars>>

ConcNext == \E s \in Slots : ConcStart(s) \/ ConcLfh(s) \/ ConcData(s)

\* The result of operation op on entryPath when it is the only call on the
\* handle and the source answers its requests as in `kinds` (with data
\* "await" while an answer it waits for is not among them).
Alone(handle, a, op, entryPath, kinds) ==
    LET pre == Precheck(op, handle.entries, entryPath)
        entry == handle.entries[FindEntry(handle.entries, entryPath, 1)]
        lfh == fetchRange(a, LfhRange(entry).start, LfhRange(entry).end, kinds[1])
        r == AfterLfh(op, a, entry, lfh.data)
        dat == fetchRange(a, r.start, r.end, kinds[2])
    IN  IF pre.data # "await" \/ Len(kinds) < 1 THEN pre
        ELSE IF ~lfh.ok THEN Caught(op, lfh.error)
        ELSE IF r.data # "await" \/ Len(kinds) < 2 THEN r
        ELSE IF ~dat.ok THEN Caught(op, dat.error)
        ELSE Decode(op, a, entry, dat.data)

(***************************************************************************)
(* PROXY (route.ts: validateUrl, corsHeaders, HEAD, GET without media      *)
(* mode).  A request and an origin are drawn; the handler answers once.    *)
(***************************************************************************)

\* an absent header or query parameter
None == -1
\* an absent Range header
NoRange == <<>>
NoBody == [first |-> 0, last |-> -1]

\* const MAX_SIZE = 500 * 1024 * 1024
MAX_SIZE == 500 * 1024 * 1024

\* The first bytes of the origin's resource: two bytes, a raw DEFLATE stream
\* (one stored block holding "hi!") at offsets 2..9, one more byte.  A
\* resource longer than this continues with zero bytes.
OriginPrefix == <<7, 7>> \o DeflateStored(<<104, 105, 33>>) \o <<7>>

OriginByte(i) == IF i >= 0 /\ i < Len(OriginPrefix) THEN OriginPrefix[i + 1] ELSE 0

\* The bytes of a body given as the slice [first .. last] of the resource.
BodyBytes(body) == [k \in 1..(body.last - body.first + 1) |-> OriginByte(body.first + k - 1)]

\* The origins tried.  head: the status of its answer to HEAD ("throw": the
\* fetch rejects); get: as UpModes; reportsSize: whether Content-Length and
\* the Content-Range total are sent; acceptRanges: the Accept-Ranges header
\* of its 200 answers ("" when absent); size: the length of the resource.
Origins ==
    [head : {200, 404, 405, -1},
     get : UpModes,
     reportsSize : BOOLEAN,
     acceptRanges : {"", "bytes", "none"},
     size : {Len(OriginPrefix), MAX_SIZE + 1}]

UpstreamThrew == [status |-> -1, contentLength |-> None, contentRange |-> <<>>,
                  acceptRanges |-> "", body |-> NoBody]

UpstreamPlain(st) == [status |-> st, contentLength |-> None, contentRange |-> <<>>,
                      acceptRanges |-> "", body |-> NoBody]

\* The origin's answer to fetch(url, {method, headers: {Range: range}}).
OriginFetch(o, method, range) ==
    LET len == IF o.reportsSize THEN o.size ELSE None IN
    IF method = "HEAD"
    THEN IF o.head = -1 THEN UpstreamThrew
         ELSE IF o.head # 200 THEN UpstreamPlain(o.head)
         ELSE [status |-> 200, contentLength |-> len, contentRange |-> <<>>,
               acceptRanges |-> o.acceptRanges, body |-> NoBody]
    ELSE IF o.get = "throw" THEN UpstreamThrew
    ELSE IF o.get = "error" THEN UpstreamPlain(404)
    ELSE IF o.get = "noranges" \/ range = NoRange \/ range[2] < range[1]
    THEN [status |-> 200, contentLength |-> len, contentRange |-> <<>>,
          acceptRanges |-> o.acceptRanges, body |-> [first |-> 0, last |-> o.size - 1]]
    ELSE IF range[1] >= o.size THEN UpstreamPlain(416)
    ELSE LET last == Min(range[2], o.size - 1) IN
         [status |-> 206,
          contentLength |-> IF o.reportsSize THEN last - range[1] + 1 ELSE None,
          contentRange |-> <<range[1], last, len>>,
          acceptRanges |-> o.acceptRanges,
          body |-> [first |-> range[1], last |-> last]]

\* A bug the status checks guard against: every answer taken as a success.
OkAnyStatus(response) == TRUE

\* response.ok
Ok(response) == response.status \in 200..299

\* The url query parameter, by what validateUrl makes of it:
\*   "missing":    absent or empty
\*   "unparsable": new URL() rejects it, with brackets encoded as well
\*   "ftp":        parses, protocol neither http: nor https:
\*   "brackets":   new URL() rejects it, accepts it with [ ] encoded; http(s)
\*   "http":       parses, http: or https:
UrlParams == {"missing", "unparsable", "ftp", "brackets", "http"}

\* validateUrl(url): the URL to fetch, or the throw that becomes a 400.
validateUrl(url) ==
    IF url = "missing" THEN [ok |-> FALSE, url |-> ""]
    ELSE IF url = "http" THEN [ok |-> TRUE, url |-> "http"]
    ELSE IF url = "brackets" THEN [ok |-> TRUE, url |-> "sanitized"]
    ELSE [ok |-> FALSE, url |-> ""]

\* corsHeaders(upstream, isHeadRequest): the forwarded headers.
corsHeaders(upstream, isHeadRequest) ==
    LET contentRange == upstream.contentRange
        total == IF contentRange # <<>> THEN contentRange[3] ELSE None
    IN  [contentLength |-> IF contentRange # <<>> /\ isHeadRequest /\ total # None
                           THEN total ELSE upstream.contentLength,
         contentRange |-> contentRange,
         acceptRanges |-> IF upstream.acceptRanges # "" THEN upstream.acceptRanges
                          ELSE IF contentRange # <<>> THEN "bytes" ELSE ""]

\* A response of the proxy.  error: a JSON {error} body; body: the slice of
\* the resource streamed back; bytes: a body built in memory; up: the
\* upstream requests made, in order, with their answers; upStatus: the status of the upstream
\* response the answer was made from (0: none); rangeSupport: hasRangeSupport.
ProxyNoResponse ==
    [status |-> 0, error |-> FALSE, contentLength |-> None, contentRange |-> <<>>,
     acceptRanges |-> "", xFileSize |-> None, xRangeSupport |-> "",
     disposition |-> FALSE, body |-> NoBody, bytes |-> <<>>, up |-> <<>>,
     upStatus |-> 0, rangeSupport |-> FALSE]

\* NextResponse.json({ error }, { status })
ProxyJson(st, up, upStatus) ==
    [ProxyNoResponse EXCEPT !.status = st, !.error = TRUE, !.up = up, !.upStatus = upStatus]

\* An upstream request and the answer it got (status -1: the fetch rejected).
UpReq(method, range, response) ==
    [method |-> method, range |-> range, status |-> response.status, body |-> response.body]

\* The HEAD handler.
ProxyHEAD(req, o) ==
    LET v == validateUrl(req.url)
        head == OriginFetch(o, "HEAD", NoRange)
        probe == OriginFetch(o, "GET", <<0, 0>>)
        fallback == ~Ok(head)
        probed == Ok(head) /\ head.acceptRanges = ""
        response == IF fallback THEN probe ELSE head
        rangeProven == (fallback \/ probed) /\ probe.status = 206
        up == <<UpReq("HEAD", NoRange, head)>>
              \o (IF fallback \/ probed THEN <<UpReq("GET", <<0, 0>>, probe)>> ELSE <<>>)
        hdrs == corsHeaders(response, TRUE)
        hasRangeSupport == rangeProven \/ response.acceptRanges = "bytes"
    IN  IF ~v.ok THEN ProxyJson(400, <<>>, 0)
        ELSE IF head.status = -1 THEN ProxyJson(502, <<UpReq("HEAD", NoRange, head)>>, -1)
        ELSE IF fallback /\ probe.status = -1 THEN ProxyJson(502, up, -1)
        ELSE IF ~Ok(response) /\ response.status # 206 THEN ProxyJson(502, up, response.status)
        ELSE [ProxyNoResponse EXCEPT
                !.status = 200,
                !.contentLength = hdrs.contentLength,
                !.contentRange = hdrs.contentRange,
                !.acceptRanges = IF hasRangeSupport THEN "bytes" ELSE hdrs.acceptRanges,
                !.xFileSize = hdrs.contentLength,
                !.xRangeSupport = IF hasRangeSupport THEN "true" ELSE "",
                !.up = up,
                !.upStatus = response.status,
                !.rangeSupport = hasRangeSupport]

\* zlib's inflateRaw on a buffer: the block loop from the block header at
\* byte p.  Stored blocks are copied; bytes after the final block are ignored;
\* a stream that ends early or whose stored lengths disagree is an error.
\* Huffman-coded blocks, which the resource does not contain at any offset
\* requested, are not decoded: the result is then marked "undecoded".
RECURSIVE InflateRawBlocks(_, _, _)
InflateRawBlocks(dat, p, out) ==
    LET h == At0(dat, p)
        final == h % 2 = 1
        type == (h \div 2) % 4
        s == p + 5
        l == At0(dat, s - 4) + At0(dat, s - 3) * 256
        nl == At0(dat, s - 2) + At0(dat, s - 1) * 256
        t == s + l
    IN  IF p >= Len(dat) THEN [ok |-> FALSE, bytes |-> <<>>, error |-> "unexpected end of file"]
        ELSE IF type = 3 THEN [ok |-> FALSE, bytes |-> <<>>, error |-> "invalid block type"]
        ELSE IF type # 0 THEN [ok |-> FALSE, bytes |-> <<>>, error |-> "undecoded"]
        ELSE IF s > Len(dat) THEN [ok |-> FALSE, bytes |-> <<>>, error |-> "unexpected end of file"]
        ELSE IF l + nl # 65535
             THEN [ok |-> FALSE, bytes |-> <<>>, error |-> "invalid stored block lengths"]
        ELSE IF t > Len(dat) THEN [ok |-> FALSE, bytes |-> <<>>, error |-> "unexpected end of file"]
        ELSE IF final
             THEN [ok |-> TRUE, bytes |-> out \o SubSeq(dat, s + 1, t), error |-> ""]
        ELSE InflateRawBlocks(dat, t, out \o SubSeq(dat, s + 1, t))

\* The part of a body inflateRaw needs: past the prefix the resource is zero
\* bytes, where a block header is a stored block with disagreeing lengths, so
\* a stream that gets there is an error whatever follows.
InflateWindow(body) ==
    [first |-> body.first, last |-> Min(body.last, Len(OriginPrefix) + 5)]

\* inflateRawAsync(Buffer.from(await response.arrayBuffer()))
inflateRaw(body) == InflateRawBlocks(BodyBytes(InflateWindow(body)), 0, <<>>)

\* The GET handler, for requests outside media mode.
ProxyGET(req, o) ==
    LET v == validateUrl(req.url)
        rangeHeader == req.range
        qStart == req.start
        qEnd == req.end
        downloadName == req.download
        query == qStart # None /\ qEnd # None
        upRange == IF rangeHeader # NoRange THEN rangeHeader
                   ELSE IF query THEN <<qStart, qEnd>>
                   ELSE NoRange
        response == OriginFetch(o, "GET", upRange)
        up == <<UpReq("GET", upRange, response)>>
        respHeaders == corsHeaders(response, FALSE)
        shouldInflate == req.inflate
        expectedSize == req.size
        decompressed == inflateRaw(response.body)
        rangeSize == qEnd - qStart + 1
    IN  IF ~v.ok THEN ProxyJson(400, <<>>, 0)
        ELSE IF response.status = -1 THEN ProxyJson(502, up, -1)
        ELSE IF ~Ok(response) /\ response.status # 206 THEN ProxyJson(502, up, response.status)
        ELSE IF query /\ downloadName
        THEN IF shouldInflate
             THEN IF decompressed.ok
                  THEN [ProxyNoResponse EXCEPT
                          !.status = 200,
                          !.disposition = TRUE,
                          !.contentLength = Len(decompressed.bytes),
                          !.bytes = decompressed.bytes,
                          !.up = up,
                          !.upStatus = response.status]
                  ELSE ProxyJson(500, up, response.status)
             ELSE [ProxyNoResponse EXCEPT
                     !.status = 200,
                     !.disposition = TRUE,
                     !.contentLength = rangeSize,
                     !.acceptRanges = respHeaders.acceptRanges,
                     !.body = response.body,
                     !.up = up,
                     !.upStatus = response.status]
        ELSE [ProxyNoResponse EXCEPT
                !.status = response.status,
                !.contentLength = respHeaders.contentLength,
                !.contentRange = respHeaders.contentRange,
                !.acceptRanges = respHeaders.acceptRanges,
                !.body = response.body,
                !.up = up,
                !.upStatus = response.status]

\* The requests tried.  range: the inbound Range header, forwarded as it
\* came; start, end, size: query parameters given as decimal numerals, here
\* their values (None: absent; an absent size reads as 0); download: a file
\* name is given; inflate: inflate=1.  Requests with media=1, start and end
\* are answered by the media branch (MediaGET).
ProxyBareRequest(method, url) ==
    [method |-> method, url |-> url, range |-> NoRange, start |-> None, end |-> None,
     download |-> FALSE, inflate |-> FALSE, size |-> 0]

ProxyRequests ==
    {ProxyBareRequest(m, u) : m \in {"GET", "HEAD"}, u \in UrlParams}
    \cup [method : {"GET"}, url : {"http"},
          range : {NoRange, <<0, 0>>, <<2, 9>>},
          start : {None, 0, 2}, end : {None, 8, 9},
          download : BOOLEAN, inflate : BOOLEAN, size : {0, 3, 5}]

ProxyIdle ==
    /\ pReq = ProxyBareRequest("none", "missing")
    /\ pOrigin = [head |-> 0, get |-> "off", reportsSize |-> FALSE, acceptRanges |-> "", size |-> 0]
    /\ pResp = ProxyNoResponse

ProxyInit ==
    /\ pReq \in ProxyRequests
    /\ pOrigin \in Origins
    /\ pResp = ProxyNoResponse

\* HEAD /api/proxy?url=..
HEAD ==
    /\ pReq.method = "HEAD"
    /\ pResp.status = 0
    /\ pResp' = ProxyHEAD(pReq, pOrigin)
    /\ UNCHANGED <<pReq, pOrigin>>
    /\ UNCHANGED <<mediaVars, urlVars, remoteVars, concVars>>

\* GET /api/proxy?url=..[&start=..&end=..][&download=..][&inflate=1&size=..]
GET ==
    /\ pReq.method = "GET"
    /\ pResp.status = 0
    /\ pResp' = ProxyGET(pReq, pOrigin)
    /\ UNCHANGED <<pReq, pOrigin>>
    /\ UNCHANGED <<mediaVars, urlVars, remoteVars, concVars>>

ProxyNext == HEAD \/ GET

(***************************************************************************)
(* Claims about the media gateway (checked under SpecMedia).               *)
(***************************************************************************)

\* The digit strings a header of the model can carry.
DigitStrs == UNION {[1..n -> DigitTokens] : n \in 0..(MaxHdr - 2)}

\* The header value "bytes=<d1>-<d2>".
RangeHeader(d1, d2) == <<"bytes=">> \o d1 \o <<"-">> \o d2

\* A single byte-range-spec or suffix-byte-range-spec in the bytes unit.
WellFormedRange(h) ==
    \E d1, d2 \in DigitStrs : (d1 # <<>> \/ d2 # <<>>) /\ h = RangeHeader(d1, d2)

MediaAnswered == mResp.status # 0
MediaV == mReq.dataEnd - mReq.dataStart + 1
MediaRelayed == MediaAnswered /\ mResp.upStatus \in {200, 206}

\* C3: in media mode, for every 0 <= a <= b < V, the answer to
\* "Range: bytes=a-b" is 206 with Content-Range a-b/V, Content-Length b-a+1
\* and a body equal to upstream[data_start+a .. data_start+b], whenever the
\* upstream answer is relayed (upstream status 200 or 206).
C3_RangedBodyIsUpstreamSlice ==
    \A d1, d2 \in DigitStrs \ {<<>>} :
        LET a == ParseInt(d1)
            b == ParseInt(d2)
        IN  (MediaRelayed /\ mReq.range = RangeHeader(d1, d2) /\ a <= b /\ b < MediaV)
            => /\ mResp.status = 206
               /\ mResp.contentRange = <<a, b, MediaV>>
               /\ mResp.contentLength = b - a + 1
               /\ mResp.body = UpstreamSlice(mReq.dataStart + a, mReq.dataStart + b)

\* C4: in media mode a header "bytes=s-e" is sent upstream as
\* bytes=(data_start+s)-(data_start+min(e, V-1)), a missing s being 0 and a
\* missing e being V-1; an end beyond V-1 is truncated and the gateway does not
\* reject the request (it answers 206 whenever the upstream answer is relayed).
C4_RangeTranslation ==
    \A d1, d2 \in DigitStrs :
        (MediaAnswered /\ mReq.range = RangeHeader(d1, d2))
        => LET s == IF d1 = <<>> THEN 0 ELSE ParseInt(d1)
               e == IF d2 = <<>> THEN MediaV - 1 ELSE ParseInt(d2)
           IN  /\ mResp.upRange = <<mReq.dataStart + s, mReq.dataStart + Min(e, MediaV - 1)>>
               /\ mResp.status # 416
               /\ (mResp.upStatus \in {200, 206} => mResp.status = 206)

\* C4 witness: a relayed answer to a header whose end lies beyond V-1.
C4_Witness ==
    \E d1, d2 \in DigitStrs \ {<<>>} :
        /\ MediaAnswered
        /\ mReq.range = RangeHeader(d1, d2)
        /\ ParseInt(d2) > MediaV - 1
        /\ ParseInt(d1) <= MediaV - 1
        /\ mResp.upStatus = 206
        /\ mResp.status = 206
        /\ mResp.upRange[2] = mReq.dataEnd

\* C29: in media mode, for every inbound Range header value, the upstream
\* header "Range: bytes=absStart-absEnd" satisfies data_start <= absStart <=
\* absEnd <= data_end, so the gateway never requests bytes outside the
\* entry's data region, and the Content-Length it advertises is at least 1
\* (stated for the entries that have data: V >= 1).
C29_UpstreamRangeInsideData ==
    (MediaAnswered /\ MediaV >= 1) =>
        /\ mReq.dataStart <= mResp.upRange[1]
        /\ mResp.upRange[1] <= mResp.upRange[2]
        /\ mResp.upRange[2] <= mReq.dataEnd
        /\ (mResp.status \in {200, 206} => mResp.contentLength >= 1)

\* C5: a syntactically invalid Range header gets the answer of a request
\* without Range header: 200, Content-Length V, no Content-Range, and an
\* upstream request for the whole virtual file.
C5_InvalidRangeIgnored ==
    (MediaAnswered /\ mResp.upStatus = 206 /\ MediaV >= 1
        /\ mReq.range # <<>> /\ ~WellFormedRange(mReq.range))
    => /\ mResp = MediaRespond([mReq EXCEPT !.range = <<>>], mUpMode)
       /\ mResp.status = 200
       /\ mResp.contentLength = MediaV
       /\ mResp.contentRange = <<>>
       /\ mResp.upRange = <<mReq.dataStart, mReq.dataEnd>>

(***************************************************************************)
(* Claims about the proxy handlers (checked under SpecProxy).              *)
(***************************************************************************)

ProxyAnswered == pResp.status # 0

\* C12: every successful (status 200) response of the proxy HEAD handler
\* carries Content-Length, an X-File-Size header with the same value, and an
\* X-Range-Support header whose value is "true" when range support was
\* established and "false" otherwise.
C12_HeadCarriesSizeAndRangeFlag ==
    (pReq.method = "HEAD" /\ pResp.status = 200)
    => /\ pResp.contentLength # None
       /\ pResp.xFileSize = pResp.contentLength
       /\ pResp.xRangeSupport = (IF pResp.rangeSupport THEN "true" ELSE "false")

LastUp == pResp.up[Len(pResp.up)]

\* The request asks for a server-side inflated download.
InflateRequest ==
    /\ pReq.method = "GET"
    /\ pReq.start # None /\ pReq.end # None
    /\ pReq.download /\ pReq.inflate

\* The compressed bytes were fetched and do not inflate.
InflateFailed ==
    /\ InflateRequest
    /\ pResp.up # <<>>
    /\ LastUp.status \in 200..299
    /\ ~inflateRaw(LastUp.body).ok

\* The answer to the request the handler forwards (HEAD for HEAD, GET for GET).
ForwardedUp == pResp.up[1]

\* The upstream answer the response is made from: in the HEAD handler the
\* answer to the ranged GET that replaces a HEAD answered not OK.
UsedUp ==
    IF pReq.method = "HEAD" /\ Len(pResp.up) = 2 /\ ~(ForwardedUp.status \in 200..299)
    THEN pResp.up[2]
    ELSE ForwardedUp

\* C13, as stated: a missing, unparsable or non-HTTP(S) url parameter gives
\* 400 and no upstream request is made; an upstream response with status
\* >= 400 gives 502 with a JSON body {error}; a server-side decompression
\* failure gives 500; no upstream error status is ever relayed as a 200 or 206.
C13_UpstreamErrorGives502 ==
    ProxyAnswered
    => /\ ~validateUrl(pReq.url).ok
          => (pResp.status = 400 /\ pResp.error /\ pResp.up = <<>>)
       /\ (pResp.up # <<>> /\ ForwardedUp.status >= 400)
          => (pResp.status = 502 /\ pResp.error)
       /\ InflateFailed => (pResp.status = 500 /\ pResp.error)
       /\ pResp.status \in {200, 206} => ForwardedUp.status < 400

\* C13, amended: the same mapping, where the upstream response that counts
\* is the one the answer is made from: for GET the answer to the forwarded
\* request; for HEAD the answer to the upstream HEAD or, when that was not
\* OK, the answer to the ranged GET sent in its place.
C13_UsedUpstreamErrorGives502 ==
    ProxyAnswered
    => /\ ~validateUrl(pReq.url).ok
          => (pResp.status = 400 /\ pResp.error /\ pResp.up = <<>>)
       /\ (pResp.up # <<>> /\ UsedUp.status >= 400)
          => (pResp.status = 502 /\ pResp.error)
       /\ InflateFailed => (pResp.status = 500 /\ pResp.error)
       /\ pResp.status \in {200, 206}
          => (UsedUp.status \in 200..399 /\ pResp.upStatus = UsedUp.status /\ ~pResp.error)

\* C13 witness: the HEAD handler answers 502 after the upstream HEAD and the
\* ranged GET sent in its place both came back as errors.
C13_Witness ==
    /\ pReq.method = "HEAD"
    /\ Len(pResp.up) = 2
    /\ pResp.up[1].status = 405
    /\ pResp.up[2].status = 404
    /\ pResp.status = 502
    /\ pResp.error

\* C14: for every non-media GET request to the proxy in which both the start
\* and end query parameters are set, the upstream request carries
\* "Range: bytes=<start>-<end>".
C14_QueryRangeSentUpstream ==
    (/\ pReq.method = "GET"
     /\ pReq.start # None /\ pReq.end # None
     /\ pResp.up # <<>>)
    => ForwardedUp.range = <<pReq.start, pReq.end>>

\* C15: for a proxy GET with start, end, download, inflate=1 and size=N, a
\* 200 response carries the raw-DEFLATE decompression of the fetched upstream
\* range, and the body length and Content-Length equal the declared size N
\* (a size parameter of 0 is left out: the absent parameter reads as 0 too).
C15_InflatedDownloadHasDeclaredSize ==
    (InflateRequest /\ pReq.size > 0 /\ pResp.status = 200)
    => /\ inflateRaw(ForwardedUp.body).ok
       /\ pResp.bytes = inflateRaw(ForwardedUp.body).bytes
       /\ Len(pResp.bytes) = pReq.size
       /\ pResp.contentLength = pReq.size

\* C16: the proxy GET handler answers 413, without streaming the body, for
\* every upstream resource whose size exceeds the 500 MiB maximum (stated
\* here for the origins that serve the resource and report its length).
C16_OversizeRejected ==
    (/\ pReq.method = "GET"
     /\ validateUrl(pReq.url).ok
     /\ pOrigin.size > MAX_SIZE
     /\ pOrigin.reportsSize
     /\ ProxyAnswered
     /\ ForwardedUp.status \in {200, 206})
    => /\ pResp.status = 413
       /\ pResp.body = NoBody
       /\ pResp.bytes = <<>>

(***************************************************************************)
(* Claims about parseZipFromUrl (checked under SpecUrl).                   *)
(***************************************************************************)

InLog(e) == \E i \in 1..Len(uLog) : uLog[i] = e

UrlRangeMode ==
    /\ uResult.status = "loaded"
    /\ ~uResult.unzipped
    /\ uResult.remoteHandle
    /\ uResult.supportsRangeRequests

\* C8: parseZipFromUrl returns a range-mode result (unzipped = null,
\* remoteHandle set, supportsRangeRequests = true) only when range support was
\* established and the known total size exceeds 20 MiB; every other "loaded"
\* result comes from a full download parsed in memory (unzipped set,
\* supportsRangeRequests = false).
C8_RangeModeOnlyAboveThreshold ==
    (uPc = "done" /\ uResult.status = "loaded")
    => IF UrlRangeMode
       THEN /\ InLog("range evidence")
            /\ uContentLength > 20 * 1024 * 1024
            /\ ~InLog("GET full")
       ELSE /\ InLog("GET full")
            /\ uResult.unzipped
            /\ ~uResult.supportsRangeRequests

\* C8 witness: a range-mode result is returned for a ranged source one byte
\* above the threshold.
C8_Witness ==
    /\ uPc = "done"
    /\ UrlRangeMode
    /\ uContentLength = RANGE_PARSE_THRESHOLD + 1

\* C9: when range-based parsing fails with RANGE_NOT_SUPPORTED, the full
\* download is attempted only if the total size is within the size policy
\* limit; above the limit an error state with a user-visible message is
\* returned and the archive is not downloaded.
C9_FallbackWithinSizePolicy ==
    (uPc = "done" /\ uRangeErr = "RANGE_NOT_SUPPORTED" /\ uContentLength > FILE_SIZE_LIMITS_URL)
    => /\ ~InLog("GET full")
       /\ uResult.status = "error"
       /\ uResult.error # ""

\* The strategy (range parse or full download) has been decided.
UrlDecided == uPc \in {"rangeParse", "download", "shareHandle", "done"}

\* The proxy HEAD answered OK and its headers gave range support.
ProxyHeadAdvertised ==
    \E i \in 1..(Len(uLog) - 1) :
        uLog[i] = "HEAD proxy" /\ uLog[i + 1] = "range evidence"

\* C11: once the direct HEAD has failed, if the proxy HEAD fails (throws,
\* times out or answers a non-OK status) or its response does not advertise
\* range support, a GET with "Range: bytes=0-0" is issued through the proxy
\* before the download strategy is decided.
C11_ProbeAfterFailedProxyHead ==
    (uProxied /\ UrlDecided /\ ~ProxyHeadAdvertised) => InLog("GET bytes=0-0")

\* The call is at an await of the capability probing.
UrlProbing == uPc \in ProbeSteps

\* C21: every request of the capability probing (direct HEAD, proxy HEAD,
\* ranged GET probes) is bounded by a deadline whose expiry counts as the
\* failure of the step, so the probing reaches the strategy decision even
\* when a server never answers.  The probing has no loop (every step moves
\* to a later await), so it reaches the decision exactly when it is never
\* stuck: at each of its awaits either the answer or the expiry of the
\* request's timer lets the call go on.
C21_ProbingNeverStuck ==
    UrlProbing => ENABLED UrlNext

(***************************************************************************)
(* Claims about zip-remote and the selection re-archiver (checked under    *)
(* Spec).                                                                  *)
(***************************************************************************)

\* parseRemoteZip has returned a handle.
HasHandle == rPc \in {"ready", "lfh", "data"}

\* The entry an extractor was asked for.
AskedEntry == rEntries[FindEntry(rEntries, lastOp.path, 1)]

\* An extractor has returned bytes.
Extracted == lastOp.op \in Extractors /\ lastOp.data = "bytes"

\* C1: whenever an extraction (extractRemoteFileRaw, or the byte-producing
\* step of extractRemoteFile / downloadRemoteFile) of an entry E of a remotely
\* parsed archive succeeds, the bytes returned have length exactly
\* E.uncompressedSize, for STORED and DEFLATE entries alike, whatever number
\* of bytes the range response carried.
C1_ExtractedLengthIsUncompressedSize ==
    Extracted => Len(lastOp.bytes) = AskedEntry.uncompressedSize

\* The records of the archive's Central Directory that are there to be read:
\* all of them, but for a last record written with a wrong signature.
PresentRecords(a) ==
    Len(a.members) - (IF a.flaw = "badsig" /\ Len(a.members) > 0 THEN 1 ELSE 0)

C6_ListingsIdentical ==
    (HasHandle /\ lastOp.op = "fetchAndParseZip" /\ lastOp.data = "listing")
    => lastOp.listing = remoteEntriesToZipEntries(rEntries)

\* The paths of the members of a ZIP built by zipSync, and where a path stands
\* in the Central Directory of the source archive.
ZipPaths(zip) == {zip[i].path : i \in 1..Len(zip)}
CdIndex(path) == FindEntry(rEntries, path, 1)

\* C7: for every selection P of the entry paths of an archive, the ZIP built
\* by createZipFromRemoteSelection contains exactly the entries of P as a set:
\* no selected entry is dropped, directory entries are kept as zero-length
\* entries, and the entries appear in the archive's Central Directory order.
\* Stated here for the selections of entries that are STORED or DEFLATE.
C7_SelectionZipHoldsSelection ==
    (/\ lastOp.op = "createZipFromRemoteSelection"
     /\ Len(lastOp.selectedPaths) > 0
     /\ \A i \in 1..Len(lastOp.selectedPaths) :
          Supported(rEntries[CdIndex(lastOp.selectedPaths[i])]))
    => /\ ZipPaths(lastOp.zip) = {lastOp.selectedPaths[i] : i \in 1..Len(lastOp.selectedPaths)}
       /\ \A i \in 1..Len(lastOp.zip) :
            EndsWithSlash(lastOp.zip[i].path) => lastOp.zip[i].size = 0
       /\ \A i, j \in 1..Len(lastOp.zip) :
            i < j => CdIndex(lastOp.zip[i].path) < CdIndex(lastOp.zip[j].path)

\* A call of fetchRange has been answered.
Fetched == rFetch.status # 0

\* C10: fetchRange returns data only for a 206 response; a 200 response to a
\* range request always raises RANGE_NOT_SUPPORTED, its body is aborted and
\* never read or returned as range data; any other status raises a
\* range-request failure.
C10_OtherStatusIsRangeFailure ==
    Fetched
    => /\ rFetch.ok => rFetch.status = 206
       /\ rFetch.status = 200
          => /\ rFetch.error = "RANGE_NOT_SUPPORTED"
             /\ rFetch.aborted /\ ~rFetch.bodyRead /\ rFetch.data = NoBuf
       /\ rFetch.status \notin {200, 206} => rFetch.error = "Range request failed"

\* C10 as it holds: fetchRange returns data exactly for a 206 response; every
\* other 2xx response (200 among them) raises RANGE_NOT_SUPPORTED; every
\* status outside 2xx raises "Range request failed"; in both cases the body is
\* aborted and never read or returned.
C10_FetchRangeByStatus ==
    Fetched
    => /\ rFetch.ok <=> rFetch.status = 206
       /\ rFetch.ok => rFetch.bodyRead /\ ~rFetch.aborted /\ rFetch.error = ""
       /\ ~rFetch.ok => rFetch.aborted /\ ~rFetch.bodyRead /\ rFetch.data = NoBuf
       /\ (rFetch.status \in 200..299 /\ rFetch.status # 206)
          => rFetch.error = "RANGE_NOT_SUPPORTED"
       /\ rFetch.status \notin 200..299 => rFetch.error = "Range request failed"

\* C10 witness: a range request answered 200 has raised RANGE_NOT_SUPPORTED.
C10_Witness ==
    /\ rFetch.status = 200
    /\ rFetch.error = "RANGE_NOT_SUPPORTED"
    /\ rFetch.aborted

\* The RemoteZipHandle parseRemoteZip returns (url and proxied, which depend
\* on the URL only, are left out): it has these fields and no other.
Handle == [fileSize |-> rFileSize, entries |-> rEntries]

\* What a caller of parseRemoteZip can observe of a warning: a field of the
\* handle for it, or an error raised.
WarningObservable ==
    \/ DOMAIN Handle \cap {"warning", "warnings"} # {}
    \/ rError # ""

\* The scan of the Central Directory met a record without the signature.
BadSignatureMet == rArchive.flaw = "badsig" /\ Len(rArchive.members) > 0

\* C17: if a Central Directory record's signature is not 0x02014b50 mid-scan,
\* parseRemoteZip stops and returns the entries decoded so far together with
\* a non-fatal warning that the caller can observe, so that the result is
\* distinguishable from a clean parse.
C17_BadSignatureStopsWithWarning ==
    (HasHandle /\ BadSignatureMet)
    => /\ Len(rEntries) = Len(rArchive.members) - 1
       /\ \A i \in 1..Len(rEntries) : rEntries[i].path = rArchive.members[i].path
       /\ WarningObservable

\* The directory bytes end before the records the EOCD declares are complete.
DirectoryTruncated == DeclaredEntries(rArchive) > Len(rArchive.members)

\* C18: if the Central Directory is truncated (the directory bytes obtained
\* end before the declared records are complete), parseRemoteZip fails
\* instead of returning a handle.
C18_TruncatedDirectoryIsFatal ==
    DirectoryTruncated => ~HasHandle

\* extractRemoteFile returns in this step, for an entry recorded as larger
\* than the preview limit.
PreviewOfLargeEntryReturns ==
    /\ lastOp = NoOp
    /\ lastOp'.op = "extractRemoteFile"
    /\ FindEntry(rEntries, lastOp'.path, 1) # 0
    /\ ~rEntries[FindEntry(rEntries, lastOp'.path, 1)].isDirectory
    /\ rEntries[FindEntry(rEntries, lastOp'.path, 1)].uncompressedSize > 25 * 1024 * 1024

\* C19: extractRemoteFile called for an entry whose uncompressedSize is
\* greater than 25 MiB returns the too-large error without issuing any range
\* request (neither the Local File Header read nor the data read): it returns
\* in the step it is called in, from the handle as parseRemoteZip left it.
C19_LargePreviewRefusedWithoutRequest ==
    [][PreviewOfLargeEntryReturns
       => /\ lastOp'.error = "File too large for preview"
          /\ lastOp'.data = "none"
          /\ rPc = "ready" /\ rPc' = "ready"
          /\ xCall = NoCall /\ xCall' = NoCall
          /\ rFetch' = rFetch]_vars

\* C19 witness: the too-large error has been returned for the entry recorded
\* with 25 MiB + 1 bytes.
C19_Witness ==
    /\ lastOp.op = "extractRemoteFile"
    /\ lastOp.path = MemberHuge.path
    /\ AskedEntry.uncompressedSize = 25 * 1024 * 1024 + 1
    /\ lastOp.error = "File too large for preview"

\* One file was selected and its bytes were obtained.
SingleObtained == Len(hSel.paths) = 1 /\ lastOp.data = "bytes"

\* The single-selection half of C20: the file's bytes are downloaded under
\* the basename of its path, and no ZIP is built whatever happens.
SingleIsPlainDownload ==
    Len(hSel.paths) = 1
    => /\ lastOp.op \in {"downloadRemoteFile", "downloadSingleFile"}
       /\ lastOp.path = hSel.paths[1]
       /\ lastOp.zip = <<>> /\ Browser.what # "zip" /\ sLoop = NoLoop
       /\ SingleObtained
          => Browser = [kind |-> "download", name |-> BaseName(hSel.paths[1]),
                        what |-> "file"]

\* The source URL was opened and nothing else was done.
SourceOpenedOnly ==
    /\ Browser = [kind |-> "open", name |-> <<>>, what |-> "source"]
    /\ lastOp = [NoOp EXCEPT !.op = "window.open"]
    /\ xCall = NoCall /\ sLoop = NoLoop

BadLfhMet ==
    /\ lastOp.op \in EntryOps
    /\ CdIndex(lastOp.path) > 0
    /\ ~AskedEntry.isDirectory
    /\ readU32(rBytes, Whole(rBytes), AskedEntry.localHeaderOffset) # LFH_SIGNATURE

\* C22: every operation that resolves an entry's data offset from its Local
\* File Header (extractRemoteFile, extractRemoteFileRaw, downloadRemoteFile,
\* getStreamingMediaUrl, getDirectFileUrl) checks the signature 0x04034b50
\* and, when it does not match, fails for that entry: it returns neither
\* bytes nor a URL.
C22_BadLfhSignatureFails ==
    BadLfhMet => lastOp.data = "none"

(***************************************************************************)
(* Claims about parseRemoteZip on the wider menu of archives (checked      *)
(* under SpecParse).                                                       *)
(***************************************************************************)

\* parseRemoteZip has returned a handle.
HandleReturnedByParse == rPc = "ready"

\* cdBuf of step 4: the part of the tail the directory lies in, or the
\* buffer of the separate fetch (the latest one made).
CdBuf ==
    LET tailStartInFile == rFileSize - rTail.len
        relStart == rDir.cdOffset - tailStartInFile
    IN  IF rDir.cdOffset >= tailStartInFile /\ rDir.cdOffset + rDir.cdSize <= rFileSize
        THEN Subarray(rTail, relStart, relStart + rDir.cdSize)
        ELSE rFetch.data

\* C24: for every handle returned by parseRemoteZip, every parsed record
\* lies wholly inside the Central Directory region: the sum over the
\* returned entries of (46 + name_len + extra_len + comment_len) is at most
\* the Central Directory size.
C24_RecordsInsideDirectory ==
    HandleReturnedByParse =>
        CdLoopEnd(rBytes, CdBuf, rDir.totalEntries, 0, 0) <= rDir.cdSize

\* A handle was returned for an archive whose records carry sentinels.
Zip64ExtraMet ==
    /\ HandleReturnedByParse
    /\ rArchive.flaw \in Zip64Flaws
    /\ Len(rArchive.members) > 0

\* C25: when a Central Directory record has any of compressed size,
\* uncompressed size or local-header offset equal to 0xFFFFFFFF,
\* parseRemoteZip replaces exactly the sentinel-valued fields with the 64-bit
\* values of the extra-field block with id 0x0001, consumed in the order
\* uncompressed size, compressed size, local-header offset; a field that is
\* not the sentinel consumes no 8-byte slot and keeps its 32-bit value.  The
\* archives hold, for each record, the member's values in the slots of the
\* sentinel fields and in the 32-bit fields of the others: every entry must
\* come out with the member's values, and the next record must be found.
C25_Zip64ExtraReplacesSentinels ==
    Zip64ExtraMet =>
        /\ Len(rEntries) = Len(rArchive.members)
        /\ \A i \in 1..Len(rEntries) :
            /\ rEntries[i].path = rArchive.members[i].path
            /\ rEntries[i].uncompressedSize = rArchive.members[i].usize
            /\ rEntries[i].compressedSize = rArchive.members[i].csize
            /\ rEntries[i].localHeaderOffset = LocalOffset(rArchive, i)

\* A handle for an archive of two members whose records carry the sentinel
\* in the two size fields only, the second a deflated member (its sizes
\* differ) at an offset above 0 kept in the 32-bit field.
C25_Witness ==
    /\ Zip64ExtraMet
    /\ rArchive.flaw = "x64uc"
    /\ Len(rEntries) = 2
    /\ rEntries[2].uncompressedSize # rEntries[2].compressedSize
    /\ rEntries[2].uncompressedSize = rArchive.members[2].usize
    /\ rEntries[2].compressedSize = rArchive.members[2].csize
    /\ rEntries[2].localHeaderOffset > 0

\* The archive has a ZIP64 EOCD locator (20 bytes before the EOCD) and the
\* tail has been read.
LocatorPos == Len(rBytes) - 22 - 20
LocatorOffset == readU64(rBytes, Whole(rBytes), LocatorPos + 8)
Zip64LocatorMet ==
    /\ rArchive.flaw \in Zip64EocdFlaws
    /\ rTail # NoBuf
    /\ rPc \in {"cd", "ready", "failed"}

\* The record at the absolute offset stored in the locator.
RecordSignatureOk ==
    readU32(rBytes, Whole(rBytes), LocatorOffset) = EOCD64_SIGNATURE
RecordDir ==
    [totalEntries |-> readU64(rBytes, Whole(rBytes), LocatorOffset + 32),
     cdSize |-> readU64(rBytes, Whole(rBytes), LocatorOffset + 40),
     cdOffset |-> readU64(rBytes, Whole(rBytes), LocatorOffset + 48),
     eocd64AbsOffset |-> LocatorOffset]

\* C26: when the archive has a ZIP64 EOCD locator, parseRemoteZip takes
\* entry count, Central Directory size and Central Directory offset from the
\* ZIP64 EOCD record that starts at the absolute offset stored in the
\* locator, read in place when the whole 56-byte record lies in the fetched
\* tail and otherwise from index 0 of a separate 56-byte range read at that
\* offset; a record whose signature is not 0x06064b50 is fatal.  So: the
\* parse goes on past the record only with the values of that record, and it
\* fails on the record exactly when the signature at that offset is wrong.
C26_Zip64RecordAtLocatorOffset ==
    Zip64LocatorMet =>
        /\ (rPc \in {"cd", "ready"} => RecordSignatureOk /\ rDir = RecordDir)
        /\ (rError = "Invalid ZIP64 EOCD record" => ~RecordSignatureOk)
        /\ (~RecordSignatureOk => rPc = "failed")

\* The tail has been fetched and searched.
TailSearched == rTail.len > 0 /\ rPc \in {"eocd64", "cd", "ready", "failed"}

\* The positions of the tail that hold the EOCD signature and leave at
\* least 22 bytes.
SignaturePositions ==
    {i \in 0..(rTail.len - 22) : readU32(rBytes, rTail, i) = EOCD_SIGNATURE}

\* The end record the parse has used is the one at tail position i (for an
\* archive without ZIP64 locator).
UsedEocdAt(i) ==
    /\ rDir.totalEntries = readU16(rBytes, rTail, i + 10)
    /\ rDir.cdSize = readU32(rBytes, rTail, i + 12)
    /\ rDir.cdOffset = readU32(rBytes, rTail, i + 16)

\* C27: parseRemoteZip fails with the not-a-ZIP error whenever the fetched
\* tail (the last min(65557, size) bytes) holds no EOCD signature at a
\* position that leaves at least 22 bytes, which includes every archive
\* shorter than 22 bytes; the backward scan never reads at a negative index
\* and, when several signatures are present, selects the one at the highest
\* offset.
C27_NotAZipWithoutEocd ==
    TailSearched =>
        /\ rTail.len = Min(tailSize, Len(rBytes))
        /\ (SignaturePositions = {}
                => rPc = "failed" /\ rError = "Not a valid ZIP file")
        /\ (rError = "Not a valid ZIP file" => SignaturePositions = {})
        /\ \A i \in findEOCDReads(rBytes, rTail) : i >= 0 /\ i + 4 <= rTail.len
        /\ (rArchive.flaw = "twosig" /\ Len(rArchive.members) > 0
              /\ rPc \in {"cd", "ready"}
                => \A i \in SignaturePositions :
                     UsedEocdAt(i) <=> \A j \in SignaturePositions : j <= i)

\* The three cases: a resource shorter than 22 bytes and one of 22 bytes or
\* more without a usable signature are refused; of two signatures the
\* later one is used.
C27_Witness ==
    /\ TailSearched
    /\ \/ rTail.len < 22 /\ rError = "Not a valid ZIP file"
       \/ rTail.len > 22 /\ rArchive.flaw = "cuteocd" /\ rError = "Not a valid ZIP file"
       \/ /\ rArchive.flaw = "twosig" /\ Len(rArchive.members) > 0 /\ rPc = "ready"
          /\ Cardinality(SignaturePositions) = 2
          /\ rDir.totalEntries = 0

\* const tailStartInFile = fileSize - tailData.length
tailStartInFile == rFileSize - rTail.len

\* C30: on every path of parseRemoteZip that obtains the tail (known file
\* size, suffix range, HEAD then absolute range), the value used as the
\* absolute offset of the first tail byte (fileSize - tailData.length) equals
\* the start offset of the range that was actually fetched.
C30_TailStartIsFetchedStart ==
    TailSearched => tailStartInFile = rTail.base

(***************************************************************************)
(* Claims about operations running concurrently on one handle (checked     *)
(* under SpecConc).                                                        *)
(***************************************************************************)

\* The call in slot s has returned what it returns when run alone.
AsAlone(s) ==
    cOps[s].result = Alone(cHandle, rBytes, cOps[s].op, cOps[s].path, cOps[s].kinds)

\* C23: for any number of extraction operations (extractRemoteFile,
\* extractRemoteFileRaw, downloadRemoteFile, getStreamingMediaUrl,
\* getDirectFileUrl) running on one RemoteZipHandle in any interleaving,
\* operations that fail included, the handle's url, fileSize, proxied flag
\* and entries are left unchanged, and each operation's result equals the
\* result it gives when run alone against the same source.
C23_ConcurrentOperationsIndependent ==
    /\ [](\A s \in Slots : cOps[s].pc = "done" => AsAlone(s))
    /\ [][cHandle' = cHandle]_vars

\* Two calls that awaited responses at the same time have returned: one the
\* bytes of its entry, the other failed on an error status, on which its
\* fetchRange called abort().
C23_Witness ==
    /\ cOverlapped
    /\ cOps[1].pc = "done" /\ cOps[1].result.data = "bytes" /\ Len(cOps[1].kinds) = 2
    /\ cOps[2].pc = "done" /\ cOps[2].result.data = "none"
    /\ \E n \in 1..Len(cOps[2].kinds) : cOps[2].kinds[n] = "missing"
    /\ cHandle = parseRemoteZip(rBytes, cHandle.url)
    /\ AsAlone(1) /\ AsAlone(2)

\* An extractor is about to request the Local File Header ("lfh") or the
\* data ("data") of an entry of a well-formed archive whose length the handle
\* records.
ExtractionRequest ==
    /\ rPc \in {"lfh", "data"}
    /\ xCall.op \in Extractors
    /\ rArchive.flaw = "none"
    /\ rFileSize = Len(rBytes)

InsideFile(start, end) == 0 <= start /\ start <= end /\ end < rFileSize

\* C28: every range request issued while extracting an entry (the Local File
\* Header read and the data read of extractRemoteFile, extractRemoteFileRaw
\* and downloadRemoteFile) satisfies 0 <= start <= end_inclusive <
\* handle.fileSize, for every non-directory entry, zero-length entries and
\* the last entry of the archive included.
C28_ExtractionRangesInsideFile ==
    ExtractionRequest =>
        /\ InsideFile(LfhRange(rEntries[xCall.entry]).start,
                      LfhRange(rEntries[xCall.entry]).end)
        /\ (rPc = "data" => InsideFile(xCall.dataStart, xCall.dataEnd))

(***************************************************************************)
(* Specifications.                                                         *)
(***************************************************************************)
InitMedia == MediaInit /\ ProxyIdle /\ UrlIdle /\ RemoteIdle /\ ConcIdle
SpecMedia == InitMedia /\ [][MediaNext]_vars

InitProxy == ProxyInit /\ MediaIdle /\ UrlIdle /\ RemoteIdle /\ ConcIdle
SpecProxy == InitProxy /\ [][ProxyNext]_vars

InitUrl == UrlInit /\ MediaIdle /\ ProxyIdle /\ RemoteIdle /\ ConcIdle
SpecUrl == InitUrl /\ [][UrlNext]_vars

Init == RemoteInit /\ MediaIdle /\ ProxyIdle /\ UrlIdle /\ ConcIdle
Next == ParseNext \/ ExtractNext \/ FetchAndParseZip \/ HandleNext
Spec == Init /\ [][Next]_vars

InitConc == ConcInit /\ MediaIdle /\ ProxyIdle /\ UrlIdle
SpecConc == InitConc /\ [][ConcNext]_vars

InitParse == ParseInit /\ MediaIdle /\ ProxyIdle /\ UrlIdle /\ ConcIdle
SpecParse == InitParse /\ [][ParseNext]_vars

====
